---- MODULE Spec2Model ----
(***************************************************************************)
(* Model of the crawler scripts of crawler_corte_idh.                      *)
(*                                                                         *)
(* Part 1: the Dialnet crawler (Revista Latinoamericana de Psicologia):    *)
(* scrapeMainPage -> scrapeYearPage -> retryWithDelay ->                   *)
(* processAndDownloadArticle -> downloadFile / generatePDF, with the two   *)
(* in-memory ledgers (caseMapping, failedCaseMapping), the two ledger JSON *)
(* files and the output directory.  The script is one sequential async     *)
(* flow; pc is the position of that flow.  A run of the script is followed *)
(* by a manual rerun (Rerun) that starts a new process on the same disk.   *)
(*                                                                         *)
(* Specifications:                                                         *)
(*   Spec          the whole Dialnet crawler, MaxRuns runs in a row        *)
(*   SpecRetry     retryWithDelay alone, applied to an arbitrary fn        *)
(*   SpecMainLoop  the year loop of scrapeMainPage alone, applied to an    *)
(*                 arbitrary scrapeYearPage                                *)
(***************************************************************************)
EXTENDS Integers, Sequences, FiniteSets, TLC

(* ------------------------------ bounds -------------------------------- *)
NumYears == 2
ArticlesPerYear == 3
MaxRuns == 2
MaxRetries == 4
StubYears == 3
DocYears == 2
DocsPerPage == 3
NumUrls == 2
ResultsPerSite == 2
NumCallers == 2
ModuleCalls == 3
NumPages == 2
ItemsPerPage == 3
NumViewDocs == 3

(* -------------------------- program constants ------------------------- *)
RetryCount == 3
RetryDelayMs == 900000
MainSleepMs == 900000
HttpOk == 200
FirstYear == 1973

Unknown == "unknown"

VARIABLES
  run,                \* number of the current run of the script
  pc,                 \* position of the sequential async flow
  browser,            \* "none" | "open" | "closed"
  yearLinks,          \* scrapeMainPage: yearLinks / yearsToProcess
  y,                  \* scrapeMainPage: index of the for...of loop
  a,                  \* scrapeYearPage: index of the for...of loop
  i, retries, delay,  \* retryWithDelay: loop counter and arguments
  fnResult,           \* how the last fn(...args) settled
  rwResult,           \* how retryWithDelay settled
  yearResult,         \* how scrapeYearPage settled
  caseMapping,        \* in-memory success ledger
  failedCaseMapping,  \* in-memory failure ledger
  mappingFile,        \* case_mapping_success.json
  failedMappingFile,  \* case_mapping_failed.json
  outputFiles,        \* output directory: path -> content
  \* observation (history) variables
  ev,                 \* the last event
  calls,              \* invocations of fn by the current retryWithDelay
  sleeps,             \* delays slept by the current retryWithDelay
  fetchTries,         \* fetches started under the current retryWithDelay
  yearCalls,          \* years passed to scrapeYearPage in this run
  yearOutcomes,       \* how each of those calls settled
  mainSleeps,         \* delays slept by scrapeMainPage in this run
  invoked,            \* articles given to processAndDownloadArticle, this run
  fetchedRun,         \* articles whose fetch was started in this run
  okEver,             \* articles whose fetch completed successfully, ever
  settledAtStart,     \* articles with a ledger entry or a file at run start
  prevComplete,       \* every earlier run processed every listed article
  failedArts,         \* articles whose processing failed (not rate limit)
  runHealthy,         \* no fetch and no page load failed in this run
  inFlight,           \* articles whose downloadFile / generatePDF is pending
  openArticles,       \* articles whose retryWithDelay call has not settled
  orphans,            \* article -> run killed between its fetch and saveJSON
  \* the CIDH (OAS) and University of Minnesota crawlers
  crawler,            \* which script the process runs
  year,               \* CIDH: index of the year loop of the main function
  task,               \* per listed item: position of processAndDownloadFile
  docOk,              \* items whose downloadFile resolved, in any run
  dirs,               \* directories that exist on disk
  \* the Corte IDH scraper
  site,               \* index of the scrapeWebsite call of the main function
  searchResult,       \* scrapeWebsite: index of the for...of loop
  step,               \* "pdf" | "doc": which processAndDownloadFile call
  corteListing,       \* the remote search results: which links each has
  \* the Express wrapper
  req,                \* the request being handled
  res,                \* the response sent for it
  reached,            \* the route handler / crawler function it reached
  \* crawlerModule
  browserInstance,    \* module variable: "null" or the browser object
  browserLaunching,   \* module variable
  cpc,                \* per caller: position in its async call
  callsLeft,          \* calls still to be made by the callers
  browsers,           \* per launched browser: "alive" | "lost" | "closed"
  current,            \* the browser browserInstance refers to, 0 for none
  closeTarget,        \* per caller: the browser whose close() it awaits
  \* file names
  named,              \* arguments -> names getFileNameFromURL returned
  \* the OHCHR documents crawler
  currentPage,        \* scrapeWebsite: page of the listing the loop is at
  item,               \* scrapeWebsite: index of the for...of loop over items
  documents,          \* module variable: records of extracted documents
  failedDocuments,    \* module variable: records of failures
  outputs,            \* observation: which item each pushed record is for
  \* the UN treaty-body crawler
  viewDoc,            \* scrapeWebsite: index of the for...of loop over hrefs
  idiomaIndex,        \* handleViewDocumentPage: index of the loop over idiomas
  downloads           \* observation: downloads started in this run

vars == <<run, pc, browser, yearLinks, y, a, i, retries, delay, fnResult,
          rwResult, yearResult, caseMapping, failedCaseMapping, mappingFile,
          failedMappingFile, outputFiles, ev, calls, sleeps, fetchTries,
          yearCalls, yearOutcomes, mainSleeps, invoked, fetchedRun, okEver,
          settledAtStart, prevComplete, failedArts, runHealthy, inFlight,
          openArticles, orphans, crawler, year, task, docOk, dirs, site,
          searchResult, step, corteListing, req, res, reached, browserInstance,
          browserLaunching, cpc, callsLeft, browsers, current, closeTarget,
          named, currentPage, item, documents, failedDocuments, outputs,
          viewDoc, idiomaIndex, downloads>>

mainVars == <<browser, yearLinks, y, yearResult, yearCalls, yearOutcomes,
              mainSleeps>>
retryVars == <<i, retries, delay, fnResult, rwResult, calls, sleeps>>
ledgerVars == <<caseMapping, failedCaseMapping, mappingFile,
                failedMappingFile, outputFiles>>
histVars == <<fetchTries, invoked, fetchedRun, okEver, settledAtStart,
              prevComplete, failedArts, runHealthy>>
flowVars == <<inFlight, openArticles, orphans>>
docVars == <<crawler, year, task, docOk, dirs>>
corteVars == <<site, searchResult, step, corteListing>>
expressVars == <<req, res, reached>>
moduleVars == <<browserInstance, browserLaunching, cpc, callsLeft, browsers,
                current, closeTarget>>
\* what the Dialnet crawler leaves alone
ohchrVars == <<currentPage, item, documents, failedDocuments, outputs>>
unVars == <<viewDoc, idiomaIndex, downloads>>
lateVars == <<ohchrVars, unVars>>
extVars == <<docVars, corteVars, expressVars, moduleVars, named, lateVars>>
\* what the other scripts leave alone
dialnetVars == <<yearLinks, y, a, retryVars, yearResult, yearCalls,
                 yearOutcomes, mainSleeps, histVars, flowVars>>

(* ------------------------- strings and objects ------------------------ *)
EmptyObject == <<>>

hasOwnProperty(obj, key) == key \in DOMAIN obj

\* obj[key] = value
SetProperty(obj, key, value) ==
  [k \in (DOMAIN obj) \cup {key} |-> IF k = key THEN value ELSE obj[k]]

endsWith(s, suffix) ==
  /\ Len(s) >= Len(suffix)
  /\ SubSeq(s, Len(s) - Len(suffix) + 1, Len(s)) = suffix

\* SHA-256 hex digest: a function of the URL alone, collision free
getFileNameFromURL(url) == "sha256(" \o url \o ")"

\* path.join(outputDir, fileName + ".pdf")
OutputPath(outputDir, fileName) == outputDir \o "/" \o fileName \o ".pdf"

(* ------------------------------ listing ------------------------------- *)
\* the remote listing: the years of the main page and, per year, the
\* li.articulo elements.  The listing is the same in every run.
YearLabel(n) == ToString(2000 + n)

KindCycle == <<"pdf", "html", "nolink", "notitle">>

ArticleKind(n, k) ==
  KindCycle[(((n - 1) * ArticlesPerYear + (k - 1)) % Len(KindCycle)) + 1]

ArticleBase(n, k) ==
  "https://dialnet.unirioja.es/descarga/articulo/" \o ToString(n) \o "_"
    \o ToString(k)

\* an li.articulo element: the title anchor (or none) and the href of the
\* 'Texto completo' link ("" when the element has no such link)
ArticleElement(n, k) ==
  LET kind == ArticleKind(n, k) IN
  [ hasTitle |-> kind # "notitle",
    title |-> "Articulo " \o ToString(n) \o "_" \o ToString(k),
    link |-> CASE kind = "pdf" -> ArticleBase(n, k) \o ".pdf"
               [] kind = "html" -> ArticleBase(n, k)
               [] kind = "notitle" -> ArticleBase(n, k)
               [] OTHER -> "" ]

Articles == {<<n, k>> : n \in 1..NumYears, k \in 1..ArticlesPerYear}
Element(art) == ArticleElement(art[1], art[2])
LinkedArticles ==
  {art \in Articles : Element(art).hasTitle /\ Element(art).link # ""}
NoArticle == <<0, 0>>

(* ------------------------------ responses ----------------------------- *)
\* what the remote answers to one fetch.  status 0: no response at all
\* (the request's 'error' event, or page.goto throwing).  marker: the body
\* contains "Ha sobrepasado los limites de acceso"; the rate-limit notice is
\* an HTML page, so a body of type application/pdf does not contain it.
NoResponse == [status |-> -1, ctype |-> "", marker |-> FALSE]
NetError == [status |-> 0, ctype |-> "", marker |-> FALSE]

HttpResponses ==
  {r \in [status : {HttpOk, 429}, ctype : {"application/pdf", "text/html", ""},
          marker : BOOLEAN] : r.ctype = "application/pdf" => ~r.marker}
    \cup {NetError}

PageResponses ==
  [status : {HttpOk, 429}, ctype : {"text/html"}, marker : BOOLEAN]
    \cup {NetError}

(* --------------------- downloadFile and generatePDF ------------------- *)
\* how the promise of downloadFile settles for a response
downloadFile(resp) ==
  IF resp.status = 0 THEN "Error"
  ELSE IF resp.status # HttpOk THEN "Error"
  ELSE IF resp.ctype = "" \/ resp.ctype # "application/pdf"
    THEN (IF resp.marker THEN "RateLimitError" ELSE "Error")
  ELSE "resolve"

\* how generatePDF settles for what page.goto loaded
generatePDF(resp) ==
  IF resp.status = 0 THEN "Error"
  ELSE IF resp.marker THEN "RateLimitError"
  ELSE "resolve"

RemoveFile(fs, path) == [p \in (DOMAIN fs) \ {path} |-> fs[p]]

\* fs.createWriteStream(outputPath) creates (or truncates) the file at once
FileOnOpen(fs, path) == SetProperty(fs, path, "empty")

\* the output directory when downloadFile has settled: the body is piped to
\* the file only on the resolve path, and the file is unlinked only in the
\* request's 'error' handler
FileAfterDownload(fs, path, resp) ==
  IF resp.status = 0 THEN RemoveFile(fs, path)
  ELSE IF downloadFile(resp) = "resolve" THEN SetProperty(fs, path, "pdf")
  ELSE fs

\* page.pdf({path: outputPath}) runs only when the marker is absent
FileAfterPDF(fs, path, resp) ==
  IF generatePDF(resp) = "resolve" THEN SetProperty(fs, path, "pdf") ELSE fs

ErrorMessage(el, resp) ==
  IF ~el.hasTitle THEN "Cannot read properties of null"
  ELSE IF resp.status = 0 THEN "network error"
  ELSE IF endsWith(el.link, ".pdf") /\ resp.status # HttpOk
    THEN "Failed to download file: " \o ToString(resp.status)
  ELSE "Expected application/pdf but got " \o resp.ctype

(* ---------------------- processAndDownloadArticle --------------------- *)
\* variant: the existence of the output file is not tested
ArticleActionNoFileCheck(el, cm, fcm, fs, outputDir) ==
  IF ~el.hasTitle THEN "throw"
  ELSE IF el.link = "" THEN "no_link"
  ELSE LET fileName == getFileNameFromURL(el.link) IN
    IF hasOwnProperty(cm, fileName \o ".pdf") \/ hasOwnProperty(fcm, fileName)
      THEN "skip_ledger"
    ELSE "fetch"

\* the branch processAndDownloadArticle takes for an element
ArticleAction(el, cm, fcm, fs, outputDir) ==
  IF ~el.hasTitle THEN "throw"
  ELSE IF el.link = "" THEN "no_link"
  ELSE LET fileName == getFileNameFromURL(el.link) IN
    IF hasOwnProperty(cm, fileName \o ".pdf") \/ hasOwnProperty(fcm, fileName)
      THEN "skip_ledger"
    ELSE IF hasOwnProperty(fs, OutputPath(outputDir, fileName))
      THEN "skip_exists"
    ELSE "fetch"

SuccessRecord(el, category) ==
  [url |-> el.link, title |-> el.title, category |-> category]

\* the catch block reads error.textoCompletoLink, error.title and
\* error.category, which no thrown Error carries
FailureKey == getFileNameFromURL(Unknown)

FailureRecord(message) ==
  [url |-> Unknown, title |-> Unknown, category |-> Unknown,
   error |-> message]

RecordFailure(fcm, message) ==
  SetProperty(fcm, FailureKey, FailureRecord(message))

(* ---------------------------- retryWithDelay -------------------------- *)
\* variant: the loop bound off by one
RetryGuardInclusive(n, limit) == n <= limit

RetryGuard(n, limit) == n < limit

\* variant: every error is retried
RetryCatchAny(error) == "sleep"

\* the catch block of retryWithDelay
RetryCatch(error) == IF error = "RateLimitError" THEN "sleep" ELSE "rethrow"

RetryExhausted == "Error: Fallo despues de reintentos"

(* ----------------------------- scrapeMainPage ------------------------- *)
\* for (const {...} of yearsToProcess): the body's normal end, the end of
\* the catch block and its 'continue' all move on to the next element
NextYearIndex(n, result) == n + 1

\* variant: the catch block rethrows what is not a rate-limit error
AfterYearCatchRethrow(error) ==
  IF error = "RateLimitError" THEN "year_loop" ELSE "crashed"

\* where the flow goes after the catch block of the year loop
AfterYearCatch(error) == "year_loop"

\* where the flow goes after the catch block of the article loop
AfterArticleCatch(error) == "article_loop"

\* the ledger key and the output path of a listed article
KeyOf(art) == getFileNameFromURL(Element(art).link) \o ".pdf"
PathOf(art) ==
  OutputPath(YearLabel(art[1]), getFileNameFromURL(Element(art).link))

\* the disk holds a success entry or an output file for the article
Settled(art) ==
  /\ Element(art).link # ""
  /\ \/ hasOwnProperty(mappingFile, KeyOf(art))
     \/ hasOwnProperty(outputFiles, PathOf(art))

(* ------------------------------- events ------------------------------- *)
Event(type, art, resp, outcome) ==
  [type |-> type, art |-> art, resp |-> resp, outcome |-> outcome]

NoEvent == Event("none", NoArticle, NoResponse, "")

\* the article the article loop is at
CurrentArticle == <<y, a>>

(* ----------------------------- initial state -------------------------- *)
\* a fresh process: nothing loaded, no browser
ProcessInit ==
  /\ browser = "none"
  /\ yearLinks = <<>>
  /\ y = 0
  /\ a = 0
  /\ i = 0
  /\ retries = 0
  /\ delay = 0
  /\ fnResult = ""
  /\ rwResult = ""
  /\ yearResult = ""
  /\ caseMapping = EmptyObject
  /\ failedCaseMapping = EmptyObject

HistoryInit ==
  /\ ev = NoEvent
  /\ calls = 0
  /\ sleeps = <<>>
  /\ fetchTries = 0
  /\ yearCalls = <<>>
  /\ yearOutcomes = <<>>
  /\ mainSleeps = <<>>
  /\ invoked = {}
  /\ fetchedRun = {}
  /\ okEver = {}
  /\ settledAtStart = {}
  /\ prevComplete = TRUE
  /\ failedArts = {}
  /\ runHealthy = TRUE

FlowInit ==
  /\ inFlight = {}
  /\ openArticles = {}
  /\ orphans = EmptyObject

\* the parts of the state the other scripts own, while they do not run
DocsIdle ==
  /\ year = 0
  /\ task = <<>>
  /\ docOk = {}
  /\ dirs = {}

CorteIdle ==
  /\ site = 0
  /\ searchResult = 0
  /\ step = ""
  /\ corteListing = <<>>

ExpressIdle ==
  /\ req = <<>>
  /\ res = <<>>
  /\ reached = ""

ModuleIdle ==
  /\ browserInstance = "null"
  /\ browserLaunching = FALSE
  /\ cpc = <<>>
  /\ callsLeft = 0
  /\ browsers = <<>>
  /\ current = 0
  /\ closeTarget = <<>>

NamesIdle == named = <<>>

OhchrIdle ==
  /\ currentPage = 0
  /\ item = 0
  /\ documents = <<>>
  /\ failedDocuments = <<>>
  /\ outputs = <<>>

UnIdle ==
  /\ viewDoc = 0
  /\ idiomaIndex = 0
  /\ downloads = <<>>

LateIdle == OhchrIdle /\ UnIdle

OthersIdle ==
  /\ DocsIdle
  /\ CorteIdle
  /\ ExpressIdle
  /\ ModuleIdle
  /\ NamesIdle
  /\ LateIdle

\* the first run starts on an empty output directory without ledger files
Init ==
  /\ run = 1
  /\ pc = "main_start"
  /\ ProcessInit
  /\ mappingFile = EmptyObject
  /\ failedMappingFile = EmptyObject
  /\ outputFiles = EmptyObject
  /\ HistoryInit
  /\ FlowInit
  /\ crawler = "dialnet"
  /\ OthersIdle

(* ----------------------------- scrapeMainPage ------------------------- *)
\* launch the browser, read the years of the main page, load both ledgers
MainStart ==
  /\ pc = "main_start"
  /\ browser' = "open"
  /\ yearLinks' = [n \in 1..NumYears |-> YearLabel(n)]
  /\ caseMapping' = mappingFile
  /\ failedCaseMapping' = failedMappingFile
  /\ y' = 1
  /\ pc' = "year_loop"
  /\ ev' = Event("start", NoArticle, NoResponse, "")
  /\ UNCHANGED <<run, a, retryVars, yearResult, mappingFile,
                 failedMappingFile, outputFiles, fetchTries, yearCalls,
                 yearOutcomes, mainSleeps, invoked, fetchedRun, okEver,
                 settledAtStart, prevComplete, failedArts,
                 runHealthy>>
  /\ UNCHANGED <<flowVars, extVars>>

\* the head of the year loop; after the last year the browser is closed
MainLoop ==
  /\ pc = "year_loop"
  /\ IF y <= Len(yearLinks)
       THEN /\ yearCalls' = Append(yearCalls, yearLinks[y])
            /\ pc' = "year_call"
            /\ ev' = Event("year_call", <<y, 0>>, NoResponse, "")
            /\ UNCHANGED browser
       ELSE /\ browser' = "closed"
            /\ pc' = "done"
            /\ ev' = Event("close", NoArticle, NoResponse, "")
            /\ UNCHANGED yearCalls
  /\ UNCHANGED <<run, yearLinks, y, a, retryVars, yearResult, ledgerVars,
                 yearOutcomes, mainSleeps, histVars>>
  /\ UNCHANGED <<flowVars, extVars>>

\* scrapeYearPage has settled: the try/catch of the year loop
MainCatch ==
  /\ pc = "year_returned"
  /\ yearOutcomes' = Append(yearOutcomes, yearResult)
  /\ mainSleeps' = IF yearResult = "RateLimitError"
                     THEN Append(mainSleeps, MainSleepMs) ELSE mainSleeps
  /\ y' = NextYearIndex(y, yearResult)
  /\ pc' = IF yearResult = "ok" THEN "year_loop"
           ELSE AfterYearCatch(yearResult)
  /\ ev' = Event("year_end", <<y, 0>>, NoResponse, yearResult)
  /\ UNCHANGED <<run, browser, yearLinks, a, retryVars, yearResult,
                 ledgerVars, yearCalls, histVars>>
  /\ UNCHANGED <<flowVars, extVars>>

(* ----------------------------- scrapeYearPage ------------------------- *)
\* open the year's page; page.goto may throw
YearPageOpen ==
  /\ pc = "year_call"
  /\ \E loaded \in BOOLEAN :
       IF loaded
         THEN /\ a' = 1
              /\ pc' = "article_loop"
              /\ ev' = Event("year_page", <<y, 0>>, NoResponse, "ok")
              /\ UNCHANGED <<yearResult, runHealthy>>
         ELSE /\ yearResult' = "Error"
              /\ pc' = "year_returned"
              /\ runHealthy' = FALSE
              /\ ev' = Event("year_page", <<y, 0>>, NetError, "Error")
              /\ UNCHANGED a
  /\ UNCHANGED <<run, browser, yearLinks, y, retryVars, ledgerVars,
                 yearCalls, yearOutcomes, mainSleeps, fetchTries, invoked,
                 fetchedRun, okEver, settledAtStart, prevComplete,
                 failedArts>>
  /\ UNCHANGED <<flowVars, extVars>>

\* the head of the article loop: retryWithDelay(processAndDownloadArticle,
\* 15 minutes, 3, ...) for the next element, or the end of scrapeYearPage
ArticleLoop ==
  /\ pc = "article_loop"
  /\ IF a <= ArticlesPerYear
       THEN /\ i' = 0
            /\ retries' = RetryCount
            /\ delay' = RetryDelayMs
            /\ calls' = 0
            /\ sleeps' = <<>>
            /\ fetchTries' = 0
            /\ openArticles' = openArticles \cup {CurrentArticle}
            /\ pc' = "retry_loop"
            /\ ev' = Event("article", CurrentArticle, NoResponse, "")
            /\ UNCHANGED yearResult
       ELSE /\ yearResult' = "ok"
            /\ pc' = "year_returned"
            /\ ev' = Event("year_page_closed", <<y, 0>>, NoResponse, "")
            /\ UNCHANGED <<i, retries, delay, calls, sleeps, fetchTries,
                           openArticles>>
  /\ UNCHANGED <<run, browser, yearLinks, y, a, fnResult, rwResult,
                 ledgerVars, yearCalls, yearOutcomes, mainSleeps, invoked,
                 fetchedRun, okEver, settledAtStart, prevComplete,
                 failedArts, runHealthy, inFlight, orphans>>
  /\ UNCHANGED extVars

\* retryWithDelay has settled: the try/catch of the article loop
ArticleNext ==
  /\ pc = "retry_returned"
  /\ a' = a + 1
  /\ pc' = IF rwResult = "return" THEN "article_loop"
           ELSE AfterArticleCatch(rwResult)
  /\ ev' = Event("article_end", CurrentArticle, NoResponse, rwResult)
  /\ openArticles' = openArticles \ {CurrentArticle}
  /\ UNCHANGED <<run, mainVars, retryVars, ledgerVars, histVars, inFlight,
                 orphans>>
  /\ UNCHANGED extVars

(* ---------------------------- retryWithDelay -------------------------- *)
\* the head of the for loop: call fn, or give up
RetryLoop ==
  /\ pc = "retry_loop"
  /\ IF RetryGuard(i, retries)
       THEN /\ calls' = calls + 1
            /\ pc' = "fn_call"
            /\ UNCHANGED rwResult
       ELSE /\ rwResult' = RetryExhausted
            /\ pc' = "retry_returned"
            /\ UNCHANGED calls
  /\ UNCHANGED <<run, mainVars, a, i, retries, delay, fnResult, sleeps,
                 ledgerVars, ev, histVars>>
  /\ UNCHANGED <<flowVars, extVars>>

\* fn has settled: return its value, sleep and loop, or rethrow
RetryHandle ==
  /\ pc = "fn_returned"
  /\ IF fnResult = "return"
       THEN /\ rwResult' = "return"
            /\ pc' = "retry_returned"
            /\ UNCHANGED <<i, sleeps>>
       ELSE IF RetryCatch(fnResult) = "sleep"
         THEN /\ sleeps' = Append(sleeps, delay)
              /\ i' = i + 1
              /\ pc' = "retry_loop"
              /\ UNCHANGED rwResult
         ELSE /\ rwResult' = fnResult
              /\ pc' = "retry_returned"
              /\ UNCHANGED <<i, sleeps>>
  /\ UNCHANGED <<run, mainVars, a, retries, delay, fnResult, calls,
                 ledgerVars, ev, histVars>>
  /\ UNCHANGED <<flowVars, extVars>>

(* ---------------------- processAndDownloadArticle --------------------- *)
\* variant: the entry is written before the existence test of the file
MappingAfterActionEarly(action, cm, key, record) ==
  IF action \in {"fetch", "skip_exists"} THEN SetProperty(cm, key, record)
  ELSE cm

\* caseMapping after the branch is taken: the entry is written in the
\* fetch branch, before the download or the render starts
MappingAfterAction(action, cm, key, record) ==
  IF action = "fetch" THEN SetProperty(cm, key, record) ELSE cm

\* variant: the promise of the fetch is not awaited
AfterFetchStartNoAwait(direct) == "saving"

\* await downloadFile(...) / await generatePDF(...): the flow resumes only
\* when the promise has settled
AfterFetchStart(direct) == "fetching"

\* the catch block of processAndDownloadArticle
ArticleCatch(error) ==
  IF error = "RateLimitError" THEN "rethrow" ELSE "record"

\* processAndDownloadArticle from its start to its first await of a fetch,
\* or to its return when it does not fetch
ProcessArticle ==
  /\ pc = "fn_call"
  /\ LET art == CurrentArticle
         el == Element(art)
         dir == yearLinks[y]
         action == ArticleAction(el, caseMapping, failedCaseMapping,
                                 outputFiles, dir)
         fileName == getFileNameFromURL(el.link)
     IN
     /\ invoked' = invoked \cup {art}
     /\ caseMapping' = MappingAfterAction(action, caseMapping,
                          fileName \o ".pdf", SuccessRecord(el, dir))
     /\ IF action = "fetch"
          THEN /\ outputFiles' =
                    IF endsWith(el.link, ".pdf")
                      THEN FileOnOpen(outputFiles, OutputPath(dir, fileName))
                      ELSE outputFiles
               /\ fetchTries' = fetchTries + 1
               /\ fetchedRun' = fetchedRun \cup {art}
               /\ inFlight' = inFlight \cup {art}
               /\ pc' = AfterFetchStart(endsWith(el.link, ".pdf"))
               /\ ev' = Event("fetch_start", art, NoResponse, "")
               /\ UNCHANGED <<fnResult, failedCaseMapping, failedMappingFile,
                              failedArts>>
          ELSE IF action = "throw"
            THEN /\ failedCaseMapping' =
                      RecordFailure(failedCaseMapping,
                                    ErrorMessage(el, NoResponse))
                 /\ failedMappingFile' = failedCaseMapping'
                 /\ failedArts' = failedArts \cup {art}
                 /\ fnResult' = "return"
                 /\ pc' = "fn_returned"
                 /\ ev' = Event("failed", art, NoResponse, "Error")
                 /\ UNCHANGED <<outputFiles, fetchTries, fetchedRun,
                                inFlight>>
            ELSE /\ fnResult' = "return"
                 /\ pc' = "fn_returned"
                 /\ ev' = Event(action, art, NoResponse, "")
                 /\ UNCHANGED <<outputFiles, fetchTries, fetchedRun,
                                failedCaseMapping, failedMappingFile,
                                failedArts, inFlight>>
  /\ UNCHANGED <<run, mainVars, a, i, retries, delay, rwResult, calls,
                 sleeps, mappingFile, okEver, settledAtStart,
                 prevComplete, runHealthy, openArticles, orphans>>
  /\ UNCHANGED extVars

\* the awaited downloadFile or generatePDF settles
FetchSettle ==
  /\ pc = "fetching"
  /\ LET art == CurrentArticle
         el == Element(art)
         dir == yearLinks[y]
         path == OutputPath(dir, getFileNameFromURL(el.link))
         direct == endsWith(el.link, ".pdf")
     IN
     \E resp \in (IF direct THEN HttpResponses ELSE PageResponses) :
       LET outcome == IF direct THEN downloadFile(resp) ELSE generatePDF(resp)
       IN
       /\ outputFiles' = IF direct
                           THEN FileAfterDownload(outputFiles, path, resp)
                           ELSE FileAfterPDF(outputFiles, path, resp)
       /\ inFlight' = inFlight \ {art}
       /\ IF outcome = "resolve"
            THEN /\ okEver' = okEver \cup {art}
                 /\ pc' = "saving"
                 /\ ev' = Event("fetch_ok", art, resp, outcome)
                 /\ UNCHANGED <<fnResult, failedCaseMapping,
                                failedMappingFile, failedArts, runHealthy>>
            ELSE IF ArticleCatch(outcome) = "rethrow"
              THEN /\ fnResult' = outcome
                   /\ pc' = "fn_returned"
                   /\ runHealthy' = FALSE
                   /\ ev' = Event("fetch_failed", art, resp, outcome)
                   /\ UNCHANGED <<okEver, failedCaseMapping,
                                  failedMappingFile, failedArts>>
              ELSE /\ failedCaseMapping' =
                        RecordFailure(failedCaseMapping,
                                      ErrorMessage(el, resp))
                   /\ failedMappingFile' = failedCaseMapping'
                   /\ failedArts' = failedArts \cup {art}
                   /\ fnResult' = "return"
                   /\ pc' = "fn_returned"
                   /\ runHealthy' = FALSE
                   /\ ev' = Event("fetch_failed", art, resp, outcome)
                   /\ UNCHANGED okEver
  /\ UNCHANGED <<run, mainVars, a, i, retries, delay, rwResult, calls,
                 sleeps, caseMapping, mappingFile, fetchTries, invoked,
                 fetchedRun, settledAtStart, prevComplete, openArticles,
                 orphans>>
  /\ UNCHANGED extVars

\* saveJSON(mappingOutputPath, caseMapping) after the fetch, then return
SaveMapping ==
  /\ pc = "saving"
  /\ mappingFile' = caseMapping
  /\ fnResult' = "return"
  /\ pc' = "fn_returned"
  /\ ev' = Event("saved", CurrentArticle, NoResponse, "")
  /\ UNCHANGED <<run, mainVars, a, i, retries, delay, rwResult, calls,
                 sleeps, caseMapping, failedCaseMapping, failedMappingFile,
                 outputFiles, histVars>>
  /\ UNCHANGED <<flowVars, extVars>>

(* ------------------------------- process kill ------------------------- *)
\* the process is stopped (killed, power loss) after the article's file has
\* been written and before saveJSON(mappingOutputPath, caseMapping) runs
Crash ==
  /\ pc = "saving"
  /\ pc' = "killed"
  /\ orphans' = SetProperty(orphans, CurrentArticle, run)
  /\ ev' = Event("killed", CurrentArticle, NoResponse, "")
  /\ UNCHANGED <<run, mainVars, a, retryVars, ledgerVars, histVars, inFlight,
                 openArticles, extVars>>

(* -------------------------------- rerun ------------------------------- *)
\* the script is started again by hand: a new process on the same disk
Rerun ==
  /\ pc \in {"done", "killed"}
  /\ run < MaxRuns
  /\ run' = run + 1
  /\ pc' = "main_start"
  /\ browser' = "none"
  /\ yearLinks' = <<>>
  /\ y' = 0
  /\ a' = 0
  /\ i' = 0
  /\ retries' = 0
  /\ delay' = 0
  /\ fnResult' = ""
  /\ rwResult' = ""
  /\ yearResult' = ""
  /\ caseMapping' = EmptyObject
  /\ failedCaseMapping' = EmptyObject
  /\ ev' = Event("rerun", NoArticle, NoResponse, "")
  /\ calls' = 0
  /\ sleeps' = <<>>
  /\ fetchTries' = 0
  /\ yearCalls' = <<>>
  /\ yearOutcomes' = <<>>
  /\ mainSleeps' = <<>>
  /\ invoked' = {}
  /\ fetchedRun' = {}
  /\ settledAtStart' = {art \in Articles : Settled(art)}
  /\ prevComplete' = (prevComplete /\ invoked = Articles)
  /\ failedArts' = {}
  /\ runHealthy' = TRUE
  /\ inFlight' = {}
  /\ openArticles' = {}
  /\ UNCHANGED <<mappingFile, failedMappingFile, outputFiles, okEver,
                 orphans>>
  /\ UNCHANGED extVars

Next ==
  \/ MainStart
  \/ MainLoop
  \/ MainCatch
  \/ YearPageOpen
  \/ ArticleLoop
  \/ ArticleNext
  \/ RetryLoop
  \/ RetryHandle
  \/ ProcessArticle
  \/ FetchSettle
  \/ SaveMapping
  \/ Rerun

Spec == Init /\ [][Next]_vars

\* the same crawler on a machine where the process can be stopped between
\* the end of a fetch and saveJSON(mappingOutputPath, caseMapping)
NextCrash ==
  \/ MainStart
  \/ MainLoop
  \/ MainCatch
  \/ YearPageOpen
  \/ ArticleLoop
  \/ ArticleNext
  \/ RetryLoop
  \/ RetryHandle
  \/ ProcessArticle
  \/ FetchSettle
  \/ SaveMapping
  \/ Crash
  \/ Rerun

SpecCrash == Init /\ [][NextCrash]_vars

(* ------------------- retryWithDelay on an arbitrary fn ---------------- *)
Delays == {1000, RetryDelayMs}
Settlements == {"return", "RateLimitError", "Error"}

InitRetry ==
  /\ run = 1
  /\ pc = "retry_loop"
  /\ browser = "none"
  /\ yearLinks = <<>>
  /\ y = 0
  /\ a = 0
  /\ i = 0
  /\ retries \in 0..MaxRetries
  /\ delay \in Delays
  /\ fnResult = ""
  /\ rwResult = ""
  /\ yearResult = ""
  /\ caseMapping = EmptyObject
  /\ failedCaseMapping = EmptyObject
  /\ mappingFile = EmptyObject
  /\ failedMappingFile = EmptyObject
  /\ outputFiles = EmptyObject
  /\ HistoryInit
  /\ FlowInit
  /\ crawler = "dialnet"
  /\ OthersIdle

\* fn(...args) settles in one of the three ways retryWithDelay tells apart
StubFn ==
  /\ pc = "fn_call"
  /\ \E r \in Settlements :
       /\ fnResult' = r
       /\ pc' = "fn_returned"
  /\ UNCHANGED <<run, mainVars, a, i, retries, delay, rwResult, calls,
                 sleeps, ledgerVars, ev, histVars>>
  /\ UNCHANGED <<flowVars, extVars>>

NextRetry ==
  \/ RetryLoop
  \/ StubFn
  \/ RetryHandle

SpecRetry == InitRetry /\ [][NextRetry]_vars

(* --------------- the year loop on an arbitrary scrapeYearPage --------- *)
YearSettlements == {"ok", "RateLimitError", "Error"}

InitMainLoop ==
  /\ run = 1
  /\ pc = "year_loop"
  /\ browser = "open"
  /\ yearLinks = [n \in 1..StubYears |-> YearLabel(n)]
  /\ y = 1
  /\ a = 0
  /\ i = 0
  /\ retries = 0
  /\ delay = 0
  /\ fnResult = ""
  /\ rwResult = ""
  /\ yearResult = ""
  /\ caseMapping = EmptyObject
  /\ failedCaseMapping = EmptyObject
  /\ mappingFile = EmptyObject
  /\ failedMappingFile = EmptyObject
  /\ outputFiles = EmptyObject
  /\ HistoryInit
  /\ FlowInit
  /\ crawler = "dialnet"
  /\ OthersIdle

\* scrapeYearPage(...) settles: it resolves or rejects with some error
StubScrapeYearPage ==
  /\ pc = "year_call"
  /\ \E r \in YearSettlements :
       /\ yearResult' = r
       /\ pc' = "year_returned"
  /\ UNCHANGED <<run, browser, yearLinks, y, a, retryVars, ledgerVars, ev,
                 yearCalls, yearOutcomes, mainSleeps, histVars>>
  /\ UNCHANGED <<flowVars, extVars>>

NextMainLoop ==
  \/ MainLoop
  \/ StubScrapeYearPage
  \/ MainCatch

SpecMainLoop == InitMainLoop /\ [][NextMainLoop]_vars

(* ======================================================================= *)
(* Part 2: the CIDH (OAS) crawler and the University of Minnesota crawler  *)
(* ======================================================================= *)
(* Both scripts list the items of a page and run processAndDownloadFile on *)
(* each: the CIDH script for every year's page, all items of a page at     *)
(* once (Promise.all); the Minnesota script for its one page, one item     *)
(* after the other.  task[k] is the position of the k-th call.             *)

(* ------------------------------ strings ------------------------------- *)
RECURSIVE lastIndexOf(_, _, _)
\* the last position <= n at which the character c occurs in s, or 0
lastIndexOf(s, c, n) ==
  IF n = 0 THEN 0
  ELSE IF SubSeq(s, n, n) = c THEN n
  ELSE lastIndexOf(s, c, n - 1)

\* s.includes(sub)
includes(s, sub) ==
  \E j \in 1..(Len(s) - Len(sub) + 1) : SubSeq(s, j, j + Len(sub) - 1) = sub

\* url.split("/").pop()
getFileNameFromURL_cidh(url) ==
  SubSeq(url, lastIndexOf(url, "/", Len(url)) + 1, Len(url))

\* path.extname(new URL(fileLink).pathname)
extname(url) ==
  LET base == getFileNameFromURL_cidh(url)
      dot == lastIndexOf(base, ".", Len(base))
  IN IF dot <= 1 THEN "" ELSE SubSeq(base, dot, Len(base))

\* path.join(dir, name)
join(dir, name) == dir \o "/" \o name

(* ------------------------------ listing ------------------------------- *)
\* the items of a page, in turn: a direct file, an HTML page, no link, and
\* a second item that links to the same HTML page as the one before it
DocSlot(n, k) == (((n - 1) * DocsPerPage + (k - 1)) % 4) + 1
DocKind(n, k) == <<"pdf", "htm", "nolink", "htm">>[DocSlot(n, k)]

\* the pages the script visits: one per year, or the single index page
DocPages == IF crawler = "cidh" THEN DocYears ELSE 1

DocYearLabel(n) == ToString(FirstYear + n - 1)

\* the href of the item's first anchor ("" when it has none)
DocLink(n, k) ==
  LET base == (IF crawler = "cidh"
                 THEN "https://www.oas.org/es/cidh/decisiones/"
                        \o DocYearLabel(n)
                 ELSE "http://hrlibrary.umn.edu/instree")
                \o "/doc" \o ToString(<<1, 2, 3, 2>>[DocSlot(n, k)])
  IN CASE DocKind(n, k) = "pdf" -> base \o ".pdf"
       [] DocKind(n, k) = "htm" -> base \o ".htm"
       [] OTHER -> ""

DocTitle(n, k) == "Caso " \o ToString(n) \o "_" \o ToString(k)

\* outputDir of the page
DocDir(n) ==
  IF crawler = "cidh" THEN "data_cidh/informes_fondo/" \o DocYearLabel(n)
  ELSE "data_crawler_University_of_Minnesota_Human_Rights_Library"

\* the name processAndDownloadFile gives the item's file
DocFileName(n, k) ==
  IF crawler = "cidh" THEN getFileNameFromURL_cidh(DocLink(n, k))
  ELSE getFileNameFromURL(DocLink(n, k)) \o extname(DocLink(n, k))

\* the path whose existence processAndDownloadFile tests
DocOutputPath(n, k) == join(DocDir(n), DocFileName(n, k))

(* ------------------------------ downloadFile -------------------------- *)
\* what a direct GET is answered / what page.goto loads (status 0: the
\* request's 'error' event, or page.goto throwing)
GetResponses ==
  {[status |-> HttpOk, ctype |-> "application/pdf", marker |-> FALSE],
   [status |-> 404, ctype |-> "text/html", marker |-> FALSE],
   NetError}
GotoResponses ==
  {[status |-> HttpOk, ctype |-> "text/html", marker |-> FALSE],
   [status |-> 404, ctype |-> "text/html", marker |-> FALSE],
   NetError}

\* the path downloadFile writes for a URL and the outputPath it is given
WrittenPath(fileURL, outputPath) ==
  IF includes(fileURL, "htm") THEN outputPath \o ".pdf" ELSE outputPath

\* how the promise of downloadFile settles: the HTML branch rejects when
\* launch, goto or pdf throws; the direct branch rejects on the request's
\* 'error' event and resolves when the response has been piped to the file
downloadFile_cidh(fileURL, resp) ==
  IF resp.status = 0 THEN "reject" ELSE "resolve"

\* fs.unlink(outputPath) is called without a callback in the CIDH script:
\* a runtime that requires the callback throws from inside the 'error'
\* handler, one that does not removes the file
UnlinkOutcomes ==
  IF crawler = "minnesota" THEN {"removed"} ELSE {"removed", "throws"}

\* the output directory when downloadFile has settled
FilesAfterDownload(fs, fileURL, outputPath, resp, unlink) ==
  LET body == IF resp.status = HttpOk THEN "pdf" ELSE "error page" IN
  IF downloadFile_cidh(fileURL, resp) = "resolve"
    THEN SetProperty(fs, WrittenPath(fileURL, outputPath), body)
  ELSE IF ~includes(fileURL, "htm") /\ unlink = "removed"
    THEN RemoveFile(fs, outputPath)
  ELSE fs

(* ------------------------- processAndDownloadFile --------------------- *)
\* the branch processAndDownloadFile takes for an item
DocAction(link, fs, outputPath) ==
  IF link = "" THEN "no_link"
  ELSE IF hasOwnProperty(fs, outputPath) THEN "skip_exists"
  ELSE "fetch"

\* caseMapping after the synchronous part of processAndDownloadFile
DocMapping(cm, n, k) ==
  IF DocLink(n, k) = ""
    THEN IF crawler = "cidh"
           THEN SetProperty(cm, "_ERROR_ " \o DocTitle(n, k), DocTitle(n, k))
           ELSE cm
  ELSE IF crawler = "cidh"
    THEN SetProperty(cm, DocFileName(n, k), DocTitle(n, k))
  ELSE SetProperty(cm, DocFileName(n, k),
                   SuccessRecord([link |-> DocLink(n, k),
                                  title |-> DocTitle(n, k)], "Category"))

\* the catch block: the CIDH script logs, the Minnesota script also writes
\* the failure ledger from error.fileLink, error.title and error.category,
\* which no thrown Error carries
DocFailure(fcm, message) ==
  IF crawler = "minnesota" THEN RecordFailure(fcm, message) ELSE fcm

\* variant: caseMapping is kept after the year's file is written
MappingAfterWriteKept(cm) == cm

\* caseMapping = {} after the year's writeFileSync (the Minnesota script
\* resets its ledgers at the end of scrapeWebsite)
MappingAfterWrite(cm) == EmptyObject

\* a fresh process of the script
InitDocs ==
  /\ crawler \in {"cidh", "minnesota"}
  /\ run = 1
  /\ pc = "docs_main"
  /\ ProcessInit
  /\ mappingFile = EmptyObject
  /\ failedMappingFile = EmptyObject
  /\ outputFiles = EmptyObject
  /\ HistoryInit
  /\ FlowInit
  /\ year = 1
  /\ task = <<>>
  /\ docOk = {}
  /\ dirs = {}
  /\ CorteIdle
  /\ ExpressIdle
  /\ ModuleIdle
  /\ NamesIdle
  /\ LateIdle

(* ------------------------ main function, scrapeWebsite ---------------- *)
\* the head of the year loop and scrapeWebsite up to page.goto:
\* createDirectory(baseDir), puppeteer.launch
DocsMain ==
  /\ pc = "docs_main"
  /\ IF year <= DocPages
       THEN /\ dirs' = dirs \cup {DocDir(year)}
            /\ browser' = "open"
            /\ pc' = "docs_goto"
            /\ ev' = Event("page", <<year, 0>>, NoResponse, "")
       ELSE /\ pc' = "done"
            /\ ev' = Event("end", NoArticle, NoResponse, "")
            /\ UNCHANGED <<dirs, browser>>
  /\ UNCHANGED <<run, ledgerVars, dialnetVars, crawler, year, task, docOk,
                 corteVars, expressVars, moduleVars, lateVars, named>>

\* page.goto and waitForSelector: they throw outside any try block, which
\* ends the main function with an unhandled rejection
DocsGoto ==
  /\ pc = "docs_goto"
  /\ \E loaded \in BOOLEAN :
       IF loaded
         THEN /\ task' = [k \in 1..DocsPerPage |-> "pending"]
              /\ pc' = "docs_tasks"
              /\ ev' = Event("listing", <<year, 0>>, NoResponse, "ok")
         ELSE /\ pc' = "crashed"
              /\ ev' = Event("listing", <<year, 0>>, NetError, "Error")
              /\ UNCHANGED task
  /\ UNCHANGED <<run, browser, ledgerVars, dialnetVars, crawler, year, docOk,
                 dirs, corteVars, expressVars, moduleVars, lateVars, named>>

\* may the k-th call of processAndDownloadFile start?  Promise.all(map)
\* starts every call; the for...of loop awaits each call before the next
MayStart(k) ==
  crawler = "minnesota" => \A j \in 1..(k - 1) : task[j] = "done"

\* processAndDownloadFile from its start to its await of downloadFile, or to
\* its return when it does not download
ProcessAndDownloadFile(k) ==
  /\ pc = "docs_tasks"
  /\ task[k] = "pending"
  /\ MayStart(k)
  /\ LET link == DocLink(year, k)
         outputPath == DocOutputPath(year, k)
         action == DocAction(link, outputFiles, outputPath)
     IN
     /\ caseMapping' = DocMapping(caseMapping, year, k)
     /\ IF action = "fetch"
          THEN /\ outputFiles' = IF includes(link, "htm") THEN outputFiles
                                 ELSE FileOnOpen(outputFiles, outputPath)
               /\ task' = [task EXCEPT ![k] = "fetching"]
               /\ ev' = Event("doc_fetch_start", <<year, k>>, NoResponse, "")
          ELSE /\ task' = [task EXCEPT ![k] = "done"]
               /\ ev' = Event("doc_" \o action, <<year, k>>, NoResponse, "")
               /\ UNCHANGED outputFiles
  /\ UNCHANGED <<run, pc, browser, failedCaseMapping, mappingFile,
                 failedMappingFile, dialnetVars, crawler, year, docOk, dirs,
                 corteVars, expressVars, moduleVars, lateVars, named>>

\* the awaited downloadFile settles, and processAndDownloadFile ends
DownloadSettle(k) ==
  /\ pc = "docs_tasks"
  /\ task[k] = "fetching"
  /\ LET link == DocLink(year, k)
         outputPath == DocOutputPath(year, k)
     IN
     \E resp \in (IF includes(link, "htm") THEN GotoResponses
                  ELSE GetResponses),
        unlink \in UnlinkOutcomes :
       LET outcome == downloadFile_cidh(link, resp)
           thrown == /\ ~includes(link, "htm")
                     /\ outcome = "reject"
                     /\ unlink = "throws"
       IN
       /\ outputFiles' =
            FilesAfterDownload(outputFiles, link, outputPath, resp, unlink)
       /\ docOk' = IF outcome = "resolve" THEN docOk \cup {<<year, k>>}
                   ELSE docOk
       /\ failedCaseMapping' =
            IF outcome = "reject" /\ ~thrown
              THEN DocFailure(failedCaseMapping, "network error")
              ELSE failedCaseMapping
       /\ task' = [task EXCEPT ![k] = "done"]
       /\ pc' = IF thrown THEN "crashed" ELSE pc
       /\ ev' = Event("doc_settled", <<year, k>>, resp,
                      IF thrown THEN "uncaught" ELSE outcome)
  /\ UNCHANGED <<run, browser, caseMapping, mappingFile, failedMappingFile,
                 dialnetVars, crawler, year, dirs, corteVars, expressVars,
                 moduleVars, lateVars, named>>

\* every call has ended: browser.close(), the end of scrapeWebsite, and the
\* ledger files the main function writes after it
DocsPageEnd ==
  /\ pc = "docs_tasks"
  /\ \A k \in 1..DocsPerPage : task[k] = "done"
  /\ browser' = "closed"
  /\ IF crawler = "cidh"
       THEN /\ dirs' = dirs \cup {"data_cidh/informes_fondo/case_mapping"}
            /\ mappingFile' =
                 SetProperty(mappingFile,
                             "case_mapping_year_" \o DocYearLabel(year),
                             caseMapping)
            /\ UNCHANGED failedMappingFile
       ELSE /\ mappingFile' = caseMapping
            /\ failedMappingFile' = failedCaseMapping
            /\ UNCHANGED dirs
  /\ caseMapping' = MappingAfterWrite(caseMapping)
  /\ failedCaseMapping' =
       IF crawler = "cidh" THEN failedCaseMapping ELSE EmptyObject
  /\ year' = year + 1
  /\ task' = <<>>
  /\ pc' = "docs_main"
  /\ ev' = Event("page_end", <<year, 0>>, NoResponse, "")
  /\ UNCHANGED <<run, outputFiles, dialnetVars, crawler, docOk, corteVars,
                 expressVars, moduleVars, lateVars, named>>

\* the script is started again by hand: a new process on the same disk
DocsRerun ==
  /\ pc \in {"done", "crashed"}
  /\ crawler \in {"cidh", "minnesota"}
  /\ run < MaxRuns
  /\ run' = run + 1
  /\ pc' = "docs_main"
  /\ browser' = "none"
  /\ caseMapping' = EmptyObject
  /\ failedCaseMapping' = EmptyObject
  /\ year' = 1
  /\ task' = <<>>
  /\ ev' = Event("rerun", NoArticle, NoResponse, "")
  /\ UNCHANGED <<mappingFile, failedMappingFile, outputFiles, dialnetVars,
                 crawler, docOk, dirs, corteVars, expressVars, moduleVars,
                 lateVars,
                 named>>

NextDocs ==
  \/ DocsMain
  \/ DocsGoto
  \/ \E k \in 1..DocsPerPage : ProcessAndDownloadFile(k)
  \/ \E k \in 1..DocsPerPage : DownloadSettle(k)
  \/ DocsPageEnd
  \/ DocsRerun

SpecDocs == InitDocs /\ [][NextDocs]_vars

(* ======================================================================= *)
(* Part 4: the Corte IDH scraper                                           *)
(* ======================================================================= *)
(* The main function calls scrapeWebsite for two sites, one after the      *)
(* other; scrapeWebsite calls processAndDownloadFile twice for each search *)
(* result, for its PDF link and for its DOC link.  Nothing in the script   *)
(* catches: an exception ends the main function as an unhandled rejection. *)

CorteSites == <<"opiniones_consultivas", "casos_sentencias">>

\* pdfDir / docDir of a site
CorteDir(s, ext) == join(join("data", CorteSites[s]), ext)

\* result.$eval(selector, a => a.href): the link of the result for the
\* selector, "" standing for the exception $eval throws when nothing matches
CorteLink(s, r, ext) ==
  IF ext = "doc" /\ corteListing[<<s, r>>] = "nodoc" THEN ""
  ELSE "https://www.corteidh.or.cr/docs/" \o CorteSites[s] \o "/serie_"
         \o ToString(r) \o "_esp." \o ext

\* outputPath = path.join(outputDir, getFileNameFromURL(fileLink))
CortePath(s, r, ext) ==
  join(CorteDir(s, ext), getFileNameFromURL_cidh(CorteLink(s, r, ext)))

\* variant: the download is started whether or not the file exists
CorteActionNoFileCheck(link, fs, outputPath) ==
  IF link = "" THEN "throw" ELSE "fetch"

\* the branch processAndDownloadFile takes
CorteAction(link, fs, outputPath) ==
  IF link = "" THEN "throw"
  ELSE IF hasOwnProperty(fs, outputPath) THEN "skip_exists"
  ELSE "fetch"

\* how the promise of downloadFile settles: it rejects on the request's
\* 'error' event and resolves when the response has been piped to the file
downloadFile_corte(resp) ==
  IF resp.status = 0 THEN "reject" ELSE "resolve"

\* the loop position after a call of processAndDownloadFile has returned
CorteAdvance(r, ext) == IF ext = "pdf" THEN <<r, "doc">> ELSE <<r + 1, "pdf">>

InitCorte ==
  /\ crawler = "corteidh"
  /\ run = 1
  /\ pc = "corte_main"
  /\ ProcessInit
  /\ mappingFile = EmptyObject
  /\ failedMappingFile = EmptyObject
  /\ outputFiles = EmptyObject
  /\ HistoryInit
  /\ FlowInit
  /\ DocsIdle
  /\ site = 1
  /\ searchResult = 0
  /\ step = ""
  /\ corteListing \in
       [(1..Len(CorteSites)) \X (1..ResultsPerSite) -> {"both", "nodoc"}]
  /\ ExpressIdle
  /\ ModuleIdle
  /\ NamesIdle
  /\ LateIdle

\* the main function before a scrapeWebsite call, and scrapeWebsite up to
\* page.goto: both directories are created, the browser is launched
CorteOpen ==
  /\ pc = "corte_main"
  /\ IF site <= Len(CorteSites)
       THEN /\ dirs' = dirs \cup {CorteDir(site, "pdf"), CorteDir(site, "doc")}
            /\ browser' = "open"
            /\ pc' = "corte_goto"
            /\ ev' = Event("site", <<site, 0>>, NoResponse, "")
       ELSE /\ pc' = "done"
            /\ ev' = Event("end", NoArticle, NoResponse, "")
            /\ UNCHANGED <<dirs, browser>>
  /\ UNCHANGED <<run, ledgerVars, dialnetVars, crawler, year, task, docOk,
                 corteVars, expressVars, moduleVars, lateVars, named>>

\* page.goto, waitForSelector and page.$$
CorteGoto ==
  /\ pc = "corte_goto"
  /\ \E loaded \in BOOLEAN :
       IF loaded
         THEN /\ searchResult' = 1
              /\ step' = "pdf"
              /\ pc' = "corte_item"
              /\ ev' = Event("listing", <<site, 0>>, NoResponse, "ok")
         ELSE /\ pc' = "crashed"
              /\ ev' = Event("listing", <<site, 0>>, NetError, "Error")
              /\ UNCHANGED <<searchResult, step>>
  /\ UNCHANGED <<run, browser, ledgerVars, dialnetVars, docVars, site,
                 corteListing, expressVars, moduleVars, lateVars, named>>

\* the head of the result loop and one call of processAndDownloadFile up to
\* its await of downloadFile; after the last result browser.close()
CorteItem ==
  /\ pc = "corte_item"
  /\ IF searchResult > ResultsPerSite
       THEN /\ browser' = "closed"
            /\ site' = site + 1
            /\ pc' = "corte_main"
            /\ ev' = Event("site_end", <<site, 0>>, NoResponse, "")
            /\ UNCHANGED <<outputFiles, searchResult, step>>
       ELSE LET link == CorteLink(site, searchResult, step)
                outputPath == CortePath(site, searchResult, step)
                action == CorteAction(link, outputFiles, outputPath)
                next == CorteAdvance(searchResult, step)
            IN
            /\ outputFiles' = IF action = "fetch"
                                THEN FileOnOpen(outputFiles, outputPath)
                                ELSE outputFiles
            /\ pc' = CASE action = "fetch" -> "corte_fetching"
                       [] action = "throw" -> "crashed"
                       [] OTHER -> "corte_item"
            /\ searchResult' = IF action = "skip_exists" THEN next[1]
                               ELSE searchResult
            /\ step' = IF action = "skip_exists" THEN next[2] ELSE step
            /\ ev' = Event("corte_" \o action, <<site, searchResult>>,
                           NoResponse, step)
            /\ UNCHANGED <<browser, site>>
  /\ UNCHANGED <<run, caseMapping, failedCaseMapping, mappingFile,
                 failedMappingFile, dialnetVars, docVars, corteListing,
                 expressVars, moduleVars, lateVars, named>>

\* the awaited downloadFile settles.  fs.unlink(outputPath) is called
\* without a callback: a runtime that requires one throws from the 'error'
\* handler, one that does not removes the file and the promise rejects
CorteSettle ==
  /\ pc = "corte_fetching"
  /\ \E resp \in GetResponses, unlink \in {"removed", "throws"} :
       LET outputPath == CortePath(site, searchResult, step)
           outcome == downloadFile_corte(resp)
           next == CorteAdvance(searchResult, step)
       IN
       /\ outputFiles' =
            IF outcome = "resolve" THEN SetProperty(outputFiles, outputPath, "body")
            ELSE IF unlink = "removed" THEN RemoveFile(outputFiles, outputPath)
            ELSE outputFiles
       /\ pc' = IF outcome = "resolve" THEN "corte_item" ELSE "crashed"
       /\ searchResult' = IF outcome = "resolve" THEN next[1] ELSE searchResult
       /\ step' = IF outcome = "resolve" THEN next[2] ELSE step
       /\ ev' = Event(IF outcome = "resolve" THEN "corte_downloaded"
                      ELSE "corte_download_failed",
                      <<site, searchResult>>, resp, step)
  /\ UNCHANGED <<run, browser, caseMapping, failedCaseMapping, mappingFile,
                 failedMappingFile, dialnetVars, docVars, site, corteListing,
                 expressVars, moduleVars, lateVars, named>>

\* the script is started again by hand: a new process on the same disk
CorteRerun ==
  /\ pc \in {"done", "crashed"}
  /\ crawler = "corteidh"
  /\ run < MaxRuns
  /\ run' = run + 1
  /\ pc' = "corte_main"
  /\ browser' = "none"
  /\ site' = 1
  /\ searchResult' = 0
  /\ step' = ""
  /\ ev' = Event("rerun", NoArticle, NoResponse, "")
  /\ UNCHANGED <<ledgerVars, dialnetVars, docVars, corteListing, expressVars,
                 moduleVars, lateVars, named>>

NextCorte ==
  \/ CorteOpen
  \/ CorteGoto
  \/ CorteItem
  \/ CorteSettle
  \/ CorteRerun

SpecCorte == InitCorte /\ [][NextCorte]_vars

(* ======================================================================= *)
(* Part 5: the Express wrapper and its basicAuth middleware                *)
(* ======================================================================= *)
(* A request is its method, its path, its Authorization header and whether *)
(* it carries the parameter the route needs (query / url).  The header is  *)
(* absent or the list authHeader.split(" ") of its parts; the credentials  *)
(* part is written decoded, as the list credentials.split(":") of its      *)
(* fields (base64 is one-to-one on them).                                  *)

NoHeader == [present |-> FALSE, parts |-> <<>>]
Header(parts) == [present |-> TRUE, parts |-> parts]

AuthHeaders ==
  {NoHeader,
   Header(<<"Basic">>),
   Header(<<"Basic", <<"admin", "admin">>>>),
   Header(<<"Basic", <<"admin", "wrong">>>>),
   Header(<<"Basic", <<"admin">>>>),
   Header(<<"Basic", <<"admin", "admin", "x">>>>),
   Header(<<"Bearer", <<"admin", "admin">>>>)}

Requests ==
  [method : {"GET", "POST"}, path : {"/", "/search", "/visit", "/other"},
   authorization : AuthHeaders, param : BOOLEAN]

\* basicAuth: "next", "401", or "throw" when Buffer.from(undefined, ...)
\* raises a TypeError for a header without a second part
basicAuth(authorization) ==
  IF ~authorization.present THEN "401"
  ELSE IF Len(authorization.parts) < 2 THEN "throw"
  ELSE LET fields == authorization.parts[2]
           username == IF Len(fields) >= 1 THEN fields[1] ELSE "undefined"
           password == IF Len(fields) >= 2 THEN fields[2] ELSE "undefined"
       IN IF username = "admin" /\ password = "admin" THEN "next" ELSE "401"

\* the middleware and routes in the order app registers them: the landing
\* page, basicAuth, the four routes; crawlerOk: the crawler call resolves
app(request, crawlerOk) ==
  LET fn == IF request.path = "/search" THEN "queryGoogle"
            ELSE "visitWebsiteUrl"
  IN
  IF request.method = "GET" /\ request.path = "/"
    THEN [status |-> 200, reached |-> "landing"]
  ELSE IF basicAuth(request.authorization) = "401"
    THEN [status |-> 401, reached |-> "none"]
  ELSE IF basicAuth(request.authorization) = "throw"
    THEN [status |-> 500, reached |-> "none"]
  ELSE IF request.path \notin {"/search", "/visit"}
    THEN [status |-> 404, reached |-> "none"]
  ELSE IF ~request.param THEN [status |-> 400, reached |-> "route"]
  ELSE IF crawlerOk THEN [status |-> 200, reached |-> fn]
  ELSE [status |-> 500, reached |-> fn]

InitExpress ==
  /\ crawler = "express"
  /\ run = 1
  /\ pc = "listening"
  /\ ProcessInit
  /\ mappingFile = EmptyObject
  /\ failedMappingFile = EmptyObject
  /\ outputFiles = EmptyObject
  /\ HistoryInit
  /\ FlowInit
  /\ DocsIdle
  /\ CorteIdle
  /\ ExpressIdle
  /\ ModuleIdle
  /\ NamesIdle
  /\ LateIdle

\* a request arrives
Receive ==
  /\ pc = "listening"
  /\ req' \in Requests
  /\ res' = <<>>
  /\ reached' = ""
  /\ pc' = "handling"
  /\ UNCHANGED <<run, browser, ledgerVars, ev, dialnetVars, docVars,
                 corteVars, moduleVars, lateVars, named>>

\* the request runs through the middleware chain and is answered
Respond ==
  /\ pc = "handling"
  /\ \E crawlerOk \in BOOLEAN :
       /\ res' = [status |-> app(req, crawlerOk).status]
       /\ reached' = app(req, crawlerOk).reached
  /\ pc' = "listening"
  /\ UNCHANGED <<run, browser, ledgerVars, ev, dialnetVars, docVars,
                 corteVars, req, moduleVars, lateVars, named>>

NextExpress ==
  \/ Receive
  \/ Respond

SpecExpress == InitExpress /\ [][NextExpress]_vars

(* ======================================================================= *)
(* Part 3: the hash-based file names                                       *)
(* ======================================================================= *)
(* getFileNameFromURL(url) of the Dialnet and Minnesota scripts and        *)
(* getFileNameFromURL(url, idioma) of the UN treaty body script, called    *)
(* with arbitrary arguments while runs, ledgers and files come and go.     *)
(* named.first is the first call, named.last the latest call.              *)

NameUrls ==
  {"https://tbinternet.ohchr.org/doc" \o ToString(n) : n \in 1..NumUrls}

\* the idioma argument; "undefined" stands for a missing argument
Idiomas == {"English", "SPANISH", "Francais", "undefined"}

\* String.prototype.toLowerCase on the arguments above
toLowerCase(s) ==
  CASE s = "English" -> "english"
    [] s = "SPANISH" -> "spanish"
    [] s = "Francais" -> "francais"
    [] s = "Espanol" -> "espanol"
    [] OTHER -> s

\* variant: the digest is salted per process
getFileNameFromURL_salted(url, idioma) ==
  "Document_sha1(" \o url \o ToString(run) \o ").pdf"

\* getFileNameFromURL(url, idioma): language prefix + SHA-1 of the URL +
\* ".pdf"; idioma.toLowerCase() throws for a missing idioma and the catch
\* block returns the Document_ name (the prefix for 'español' / 'spanish'
\* is written here without its tilde)
getFileNameFromURL_idioma(url, idioma) ==
  LET hash == "sha1(" \o url \o ")" IN
  IF idioma = "undefined" THEN "Document_" \o hash \o ".pdf"
  ELSE IF toLowerCase(idioma) = "english" THEN "English_" \o hash \o ".pdf"
  ELSE IF toLowerCase(idioma) \in {"espanol", "spanish"}
    THEN "Espanol_" \o hash \o ".pdf"
  ELSE idioma \o "_" \o hash \o ".pdf"

NoCall == [url |-> "", idioma |-> "", run |-> 0, sha256 |-> "", sha1 |-> ""]

InitNames ==
  /\ crawler = "names"
  /\ run = 1
  /\ pc = "names"
  /\ ProcessInit
  /\ mappingFile = EmptyObject
  /\ failedMappingFile = EmptyObject
  /\ outputFiles = EmptyObject
  /\ HistoryInit
  /\ FlowInit
  /\ DocsIdle
  /\ CorteIdle
  /\ ExpressIdle
  /\ ModuleIdle
  /\ LateIdle
  /\ named = [first |-> NoCall, last |-> NoCall]

\* one call of each function with some arguments
NameCall ==
  /\ pc = "names"
  /\ \E url \in NameUrls, idioma \in Idiomas :
       LET call == [url |-> url, idioma |-> idioma, run |-> run,
                    sha256 |-> getFileNameFromURL(url),
                    sha1 |-> getFileNameFromURL_idioma(url, idioma)]
       IN named' = [first |-> IF named.first = NoCall THEN call
                              ELSE named.first,
                    last |-> call]
  /\ UNCHANGED <<run, pc, browser, ledgerVars, ev, dialnetVars, docVars,
                 corteVars, expressVars, moduleVars, lateVars>>

\* between calls the document is recorded in the ledger and written to disk
NameRecord ==
  /\ pc = "names"
  /\ named.first # NoCall
  /\ caseMapping' = SetProperty(caseMapping, named.first.sha256 \o ".pdf",
                                named.first.url)
  /\ outputFiles' = SetProperty(outputFiles, named.first.sha1, "pdf")
  /\ UNCHANGED <<run, pc, browser, failedCaseMapping, mappingFile,
                 failedMappingFile, ev, dialnetVars, docVars, corteVars,
                 expressVars, moduleVars, lateVars, named>>

\* between calls the script ends and is started again
NameRerun ==
  /\ pc = "names"
  /\ run < MaxRuns
  /\ run' = run + 1
  /\ mappingFile' = caseMapping
  /\ caseMapping' = EmptyObject
  /\ UNCHANGED <<pc, browser, failedCaseMapping, failedMappingFile,
                 outputFiles, ev, dialnetVars, docVars, corteVars,
                 expressVars, moduleVars, lateVars, named>>

NextNames ==
  \/ NameCall
  \/ NameRecord
  \/ NameRerun

SpecNames == InitNames /\ [][NextNames]_vars

(* ======================================================================= *)
(* Part 6: crawlerModule: one shared browser for concurrent callers        *)
(* ======================================================================= *)
Callers == 1..NumCallers

\* a call in progress: the exported function and the await it is at
CallerAt(fn, at) == [fn |-> fn, at |-> at]
IdleCaller == CallerAt("", "idle")

moduleFrame ==
  <<run, pc, browser, ledgerVars, ev, dialnetVars, docVars, corteVars,
    expressVars, named, lateVars>>

\* variant: initBrowser launches without looking at browserLaunching
InitBrowserGateNone(launching) == "launch"

\* if (browserLaunching) { while (browserLaunching) await sleep(100) }
\* else the caller launches
InitBrowserGate(launching) == IF launching THEN "wait" ELSE "launch"

\* initBrowser from the test of browserLaunching to its next await: the
\* test and `browserLaunching = true` run without an await between them
EnterGate(c, fn) ==
  IF InitBrowserGate(browserLaunching) = "wait"
    THEN /\ cpc' = [cpc EXCEPT ![c] = CallerAt(fn, "waiting")]
         /\ UNCHANGED browserLaunching
    ELSE /\ cpc' = [cpc EXCEPT ![c] = CallerAt(fn, "launching")]
         /\ browserLaunching' = TRUE

InitModule ==
  /\ crawler = "module"
  /\ run = 1
  /\ pc = "module"
  /\ ProcessInit
  /\ mappingFile = EmptyObject
  /\ failedMappingFile = EmptyObject
  /\ outputFiles = EmptyObject
  /\ HistoryInit
  /\ FlowInit
  /\ DocsIdle
  /\ CorteIdle
  /\ ExpressIdle
  /\ NamesIdle
  /\ LateIdle
  /\ browserInstance = "null"
  /\ browserLaunching = FALSE
  /\ cpc = [c \in Callers |-> IdleCaller]
  /\ callsLeft = ModuleCalls
  /\ browsers = <<>>
  /\ current = 0
  /\ closeTarget = [c \in Callers |-> 0]

\* queryGoogle(...) or visitWebsiteUrl(...) is called: initBrowser runs to
\* its first await, or returns at once when the browser is connected
CallCrawler(c) ==
  /\ cpc[c].at = "idle"
  /\ callsLeft > 0
  /\ callsLeft' = callsLeft - 1
  /\ \E fn \in {"queryGoogle", "visitWebsiteUrl"} :
       IF browserInstance = "connected"
         THEN /\ cpc' = [cpc EXCEPT ![c] = CallerAt(fn, "use")]
              /\ UNCHANGED browserLaunching
       ELSE IF browserInstance = "disconnected"
         THEN /\ cpc' = [cpc EXCEPT ![c] = CallerAt(fn, "init_closing")]
              /\ UNCHANGED browserLaunching
       ELSE EnterGate(c, fn)
  /\ closeTarget' = [closeTarget EXCEPT ![c] =
                       IF browserInstance = "disconnected" THEN current
                       ELSE @]
  /\ UNCHANGED <<browserInstance, browsers, current, moduleFrame>>

\* closeBrowser() is called from outside (process signal, route handler)
CallClose(c) ==
  /\ cpc[c].at = "idle"
  /\ callsLeft > 0
  /\ callsLeft' = callsLeft - 1
  /\ cpc' = [cpc EXCEPT ![c] =
               IF browserInstance # "null"
                 THEN CallerAt("closeBrowser", "closing")
                 ELSE IdleCaller]
  /\ closeTarget' = [closeTarget EXCEPT ![c] = current]
  /\ UNCHANGED <<browserInstance, browserLaunching, browsers, current,
                 moduleFrame>>

\* `await browserInstance.close()` has settled: the browser close() was
\* called on is closed; finally browserInstance = null, whatever
\* browserInstance refers to by now
CloseSettle(c) ==
  /\ cpc[c].at \in {"init_closing", "closing"}
  /\ browsers' = [b \in DOMAIN browsers |->
                    IF b = closeTarget[c] /\ browsers[b] = "alive"
                      THEN "closed" ELSE browsers[b]]
  /\ browserInstance' = "null"
  /\ current' = 0
  /\ closeTarget' = [closeTarget EXCEPT ![c] = 0]
  /\ cpc' = [cpc EXCEPT ![c] =
               IF cpc[c].at = "init_closing"
                 THEN CallerAt(cpc[c].fn, "gate")
                 ELSE IdleCaller]
  /\ UNCHANGED <<browserLaunching, callsLeft, moduleFrame>>

\* initBrowser resumes after `await closeBrowser()`
Gate(c) ==
  /\ cpc[c].at = "gate"
  /\ EnterGate(c, cpc[c].fn)
  /\ UNCHANGED <<browserInstance, callsLeft, browsers, current, closeTarget,
                 moduleFrame>>

\* a sleep(100) of the waiting loop has elapsed: test browserLaunching again
Poll(c) ==
  /\ cpc[c].at = "waiting"
  /\ cpc' = [cpc EXCEPT ![c] =
               IF browserLaunching THEN cpc[c]
               ELSE CallerAt(cpc[c].fn, "use")]
  /\ UNCHANGED <<browserInstance, browserLaunching, callsLeft, browsers,
                 current, closeTarget, moduleFrame>>

\* `await puppeteer.launch(...)` has settled: try / catch / finally.  It gave
\* a browser, a browser that was lost before the 'disconnected' listener was
\* attached, or a rejection
LaunchSettle(c) ==
  /\ cpc[c].at = "launching"
  /\ browserInstance' \in {"connected", "disconnected", "null"}
  /\ browsers' = IF browserInstance' = "connected"
                   THEN Append(browsers, "alive")
                 ELSE IF browserInstance' = "disconnected"
                   THEN Append(browsers, "lost")
                 ELSE browsers
  /\ current' = IF browserInstance' = "null" THEN 0 ELSE Len(browsers')
  /\ browserLaunching' = FALSE
  /\ cpc' = [cpc EXCEPT ![c] = CallerAt(cpc[c].fn, "use")]
  /\ UNCHANGED <<callsLeft, closeTarget, moduleFrame>>

\* the page work after initBrowser has returned, up to the catch block: a
\* protocol error closes the browser before the error is rethrown
Use(c) ==
  /\ cpc[c].at = "use"
  /\ \E outcome \in {"ok", "error", "protocol_error"} :
       cpc' = [cpc EXCEPT ![c] =
                 IF /\ browserInstance # "null"
                    /\ outcome = "protocol_error"
                   THEN CallerAt(cpc[c].fn, "closing")
                   ELSE IdleCaller]
  /\ closeTarget' = [closeTarget EXCEPT ![c] =
                       IF cpc'[c].at = "closing" THEN current ELSE @]
  /\ UNCHANGED <<browserInstance, browserLaunching, callsLeft, browsers,
                 current, moduleFrame>>

\* a browser is lost: its 'disconnected' listener sets browserInstance =
\* null, whichever browser browserInstance refers to
Disconnect ==
  /\ \E b \in DOMAIN browsers :
       /\ browsers[b] = "alive"
       /\ browsers' = [browsers EXCEPT ![b] = "lost"]
  /\ browserInstance' = "null"
  /\ current' = 0
  /\ UNCHANGED <<browserLaunching, cpc, callsLeft, closeTarget, moduleFrame>>

NextModule ==
  \/ \E c \in Callers : CallCrawler(c)
  \/ \E c \in Callers : CallClose(c)
  \/ \E c \in Callers : CloseSettle(c)
  \/ \E c \in Callers : Gate(c)
  \/ \E c \in Callers : Poll(c)
  \/ \E c \in Callers : LaunchSettle(c)
  \/ \E c \in Callers : Use(c)
  \/ Disconnect

\* fairness: a launch settles and a timer of sleep(100) fires
SpecModule ==
  /\ InitModule
  /\ [][NextModule]_vars
  /\ \A c \in Callers : WF_vars(LaunchSettle(c)) /\ WF_vars(Poll(c))

(* ======================================================================= *)
(* Part 7: the OHCHR documents crawler                                     *)
(* ======================================================================= *)
\* the remote listing: NumPages pages of ItemsPerPage items; the href of the
\* card link of an item, "" for an item without a.card-2__link
OhchrLink(p, k) ==
  IF k % 3 = 0 THEN ""
  ELSE "https://www.ohchr.org/es/documents/" \o ToString(p) \o "-"
         \o ToString(k)

ohchrFrame ==
  <<run, caseMapping, failedCaseMapping, mappingFile, failedMappingFile,
    dialnetVars, docVars, corteVars, expressVars, moduleVars, named, unVars>>

\* one entry of the observation log
Logged(p, k, what) == <<p, k, what>>

\* extractDocumentDetails(browser, documentURL): browser.newPage() is called
\* before the try; the catch pushes a failure record and returns null; the
\* finally awaits page.close(), whose rejection replaces the outcome
extractDocumentDetails(documentURL, newPageOk, extractOk, closeOk) ==
  IF ~newPageOk THEN [pushed |-> <<>>, result |-> "throw"]
  ELSE [pushed |-> IF extractOk THEN <<>>
                   ELSE <<[url |-> documentURL, error |-> "extract"]>>,
        result |-> IF ~closeOk THEN "throw"
                   ELSE IF extractOk THEN "details" ELSE "null"]

\* processDocument(browser, item): what it appends to documents and to
\* failedDocuments; every exception inside it ends in its catch
processDocument(fileLink, handleOk, details) ==
  IF ~handleOk
    THEN [documents |-> <<>>,
          failed |-> <<[url |-> "Desconocido", error |-> "item"]>>]
  ELSE IF fileLink = "" THEN [documents |-> <<>>, failed |-> <<>>]
  ELSE [documents |-> IF details.result = "details"
                        THEN <<[url |-> fileLink]>> ELSE <<>>,
        failed |-> details.pushed \o
                     (IF details.result = "throw"
                        THEN <<[url |-> "Desconocido", error |-> "thrown"]>>
                        ELSE <<>>)]

InitOhchr ==
  /\ crawler = "ohchr"
  /\ run = 1
  /\ pc = "ohchr_start"
  /\ ProcessInit
  /\ mappingFile = EmptyObject
  /\ failedMappingFile = EmptyObject
  /\ outputFiles = EmptyObject
  /\ HistoryInit
  /\ FlowInit
  /\ DocsIdle
  /\ CorteIdle
  /\ ExpressIdle
  /\ ModuleIdle
  /\ NamesIdle
  /\ OhchrIdle
  /\ UnIdle

\* scrapeWebsite up to the loop: launch, newPage, page.goto
OhchrOpen ==
  /\ pc = "ohchr_start"
  /\ \E ok \in BOOLEAN :
       IF ok THEN /\ browser' = "open"
                  /\ currentPage' = 1
                  /\ pc' = "ohchr_page"
                  /\ outputs' = Append(outputs, Logged(1, 0, "visit"))
             ELSE /\ browser' = "open"
                  /\ pc' = "crashed"
                  /\ UNCHANGED <<currentPage, outputs>>
  /\ ev' = Event("start", NoArticle, NoResponse, "")
  /\ UNCHANGED <<outputFiles, item, documents, failedDocuments, ohchrFrame>>

\* the head of the while loop: waitForSelector of the listing container,
\* break when it times out; then page.$$ of the items
OhchrWaitListing ==
  /\ pc = "ohchr_page"
  /\ \E present \in BOOLEAN :
       IF present
         THEN /\ item' = 1
              /\ pc' = "ohchr_items"
              /\ UNCHANGED outputs
         ELSE /\ pc' = "ohchr_close"
              /\ outputs' = Append(outputs,
                                   Logged(currentPage, 0, "end_absent"))
              /\ UNCHANGED item
  /\ ev' = Event("listing", <<currentPage, 0>>, NoResponse, "")
  /\ UNCHANGED <<browser, outputFiles, currentPage, documents,
                 failedDocuments, ohchrFrame>>

\* for (const item of items) await processDocument(browser, item)
OhchrItem ==
  /\ pc = "ohchr_items"
  /\ IF item <= ItemsPerPage
       THEN \E handleOk, newPageOk, extractOk, closeOk \in BOOLEAN :
              LET link == OhchrLink(currentPage, item)
                  out == processDocument(link, handleOk,
                           extractDocumentDetails(link, newPageOk, extractOk,
                                                  closeOk))
              IN
              /\ documents' = documents \o out.documents
              /\ failedDocuments' = failedDocuments \o out.failed
              /\ outputs' = outputs
                   \o [n \in 1..Len(out.documents) |->
                         Logged(currentPage, item, "documents")]
                   \o [n \in 1..Len(out.failed) |->
                         Logged(currentPage, item, "failed")]
              /\ item' = item + 1
              /\ pc' = "ohchr_items"
       ELSE /\ pc' = "ohchr_next"
            /\ UNCHANGED <<item, documents, failedDocuments, outputs>>
  /\ ev' = Event("item", <<currentPage, item>>, NoResponse, "")
  /\ UNCHANGED <<browser, outputFiles, currentPage, ohchrFrame>>

\* the pager: the 'next' link of the last page is missing or disabled;
\* otherwise click and waitForNavigation, outside any try
OhchrNext ==
  /\ pc = "ohchr_next"
  /\ IF currentPage < NumPages
       THEN \E ok \in BOOLEAN :
              IF ok THEN /\ currentPage' = currentPage + 1
                         /\ item' = 0
                         /\ pc' = "ohchr_page"
                         /\ outputs' = Append(outputs,
                              Logged(currentPage + 1, 0, "visit"))
                    ELSE /\ pc' = "crashed"
                         /\ outputs' = Append(outputs,
                              Logged(currentPage, 0, "end_thrown"))
                         /\ UNCHANGED <<currentPage, item>>
       ELSE \E how \in {"end_missing", "end_disabled"} :
              /\ pc' = "ohchr_close"
              /\ outputs' = Append(outputs, Logged(currentPage, 0, how))
              /\ UNCHANGED <<currentPage, item>>
  /\ ev' = Event("pager", <<currentPage, 0>>, NoResponse, "")
  /\ UNCHANGED <<browser, outputFiles, documents, failedDocuments,
                 ohchrFrame>>

\* after the loop: browser.close(), the two writeFileSync calls, the reset
OhchrClose ==
  /\ pc = "ohchr_close"
  /\ \E ok \in BOOLEAN :
       IF ok
         THEN /\ browser' = "closed"
              /\ outputFiles' =
                   SetProperty(SetProperty(outputFiles, "documents.json",
                                           documents),
                               "failed_documents.json", failedDocuments)
              /\ outputs' = outputs
                   \o <<Logged(0, 0, "write documents.json"),
                        Logged(0, 0, "write failed_documents.json")>>
              /\ documents' = <<>>
              /\ failedDocuments' = <<>>
              /\ pc' = "done"
         ELSE /\ pc' = "crashed"
              /\ UNCHANGED <<browser, outputFiles, outputs, documents,
                             failedDocuments>>
  /\ ev' = Event("close", NoArticle, NoResponse, "")
  /\ UNCHANGED <<currentPage, item, ohchrFrame>>

NextOhchr ==
  \/ OhchrOpen
  \/ OhchrWaitListing
  \/ OhchrItem
  \/ OhchrNext
  \/ OhchrClose

SpecOhchr == InitOhchr /\ [][NextOhchr]_vars

(* ======================================================================= *)
(* Part 8: the UN treaty-body crawler                                      *)
(* ======================================================================= *)
\* path.join(baseDir, "pdf") for the baseDir of the main call
UnPdfDir == "data_crawler_UN_treaty_body/pdf"

\* the idiomas array of handleViewDocumentPage (the second element is
\* written here without its tilde)
UnIdiomas == <<"English", "Espanol">>

\* the remote listing: NumViewDocs 'View document' pages; what the row of a
\* language has on a page: no row at all, a row with a PDF link, a DOC link,
\* both, or neither
UnFila(d, l) ==
  LET n == (d - 1) * Len(UnIdiomas) + (l - 1)
  IN <<"both", "doc", "pdf", "norow", "nolinks">>[(n % 5) + 1]

\* el.href of the link of a row
UnHref(d, l, ext) ==
  "https://tbinternet.ohchr.org/doc" \o ToString(d) \o "_" \o UnIdiomas[l]
    \o "." \o ext

\* String.prototype.replace with a string pattern: the first occurrence only
replace(s, pattern, replacement) ==
  LET n == Len(pattern)
      hits == {k \in 1..(Len(s) - n + 1) : SubSeq(s, k, k + n - 1) = pattern}
  IN IF hits = {} THEN s
     ELSE LET k == CHOOSE h \in hits : \A j \in hits : h <= j
          IN SubSeq(s, 1, k - 1) \o replacement \o SubSeq(s, k + n, Len(s))

\* the request of one download: which link, from which row, to which path
Download(d, l, kind, href, path, existed) ==
  [doc |-> d, idioma |-> l, kind |-> kind, href |-> href, path |-> path,
   existed |-> existed]

\* variant: no fileExists test before the download
LanguageStepNoFileCheck(d, l, fs) ==
  LET idioma == UnIdiomas[l]
      fila == UnFila(d, l)
      kind == IF fila \in {"pdf", "both"} THEN "pdf" ELSE "doc"
      href == UnHref(d, l, kind)
      name == getFileNameFromURL_idioma(href, idioma)
      path == join(UnPdfDir,
                   IF kind = "doc" THEN replace(name, ".pdf", ".doc")
                   ELSE name)
  IN IF fila \in {"norow", "nolinks"} THEN [type |-> "none"]
     ELSE [type |-> "download",
           request |-> Download(d, l, kind, href, path,
                                hasOwnProperty(fs, path))]

\* the body of the loop over idiomas for one language: the row, its PDF link,
\* else its DOC link, the file name, and the fileExists test
LanguageStep(d, l, fs) ==
  LET idioma == UnIdiomas[l]
      fila == UnFila(d, l)
      kind == IF fila \in {"pdf", "both"} THEN "pdf" ELSE "doc"
      href == UnHref(d, l, kind)
      name == getFileNameFromURL_idioma(href, idioma)
      path == join(UnPdfDir,
                   IF kind = "doc" THEN replace(name, ".pdf", ".doc")
                   ELSE name)
  IN IF fila \in {"norow", "nolinks"} THEN [type |-> "none"]
     ELSE IF hasOwnProperty(fs, path)
       THEN [type |-> "skip_exists", path |-> path]
     ELSE [type |-> "download",
           request |-> Download(d, l, kind, href, path,
                                hasOwnProperty(fs, path))]

\* how the promise of downloadFile settles: only the status is tested
downloadFile_un(resp) ==
  IF resp.status = HttpOk THEN "resolve" ELSE "reject"

\* the output directory when downloadFile has settled: the file was created
\* by createWriteStream; the 'error' handler unlinks it, the status test
\* rejects without touching it
FilesAfterDownload_un(fs, path, resp) ==
  IF resp.status = 0 THEN RemoveFile(fs, path)
  ELSE IF downloadFile_un(resp) = "resolve" THEN SetProperty(fs, path, "body")
  ELSE fs

unFrame ==
  <<caseMapping, failedCaseMapping, mappingFile, failedMappingFile,
    dialnetVars, crawler, year, task, docOk, corteVars, expressVars,
    moduleVars, named, ohchrVars>>

InitUn ==
  /\ crawler = "un"
  /\ run = 1
  /\ pc = "un_main"
  /\ ProcessInit
  /\ mappingFile = EmptyObject
  /\ failedMappingFile = EmptyObject
  /\ outputFiles = EmptyObject
  /\ HistoryInit
  /\ FlowInit
  /\ DocsIdle
  /\ CorteIdle
  /\ ExpressIdle
  /\ ModuleIdle
  /\ NamesIdle
  /\ OhchrIdle
  /\ UnIdle

\* scrapeWebsite up to the loop over hrefs: createDirectory, launch, the
\* listing page and its clicks; whatever throws ends in the catch
UnOpen ==
  /\ pc = "un_main"
  /\ dirs' = dirs \cup {UnPdfDir}
  /\ \E outcome \in {"ok", "launch_throws", "listing_throws"} :
       /\ browser' = IF outcome = "launch_throws" THEN "none" ELSE "open"
       /\ IF outcome = "ok" THEN viewDoc' = 1 /\ pc' = "un_doc"
          ELSE viewDoc' = viewDoc /\ pc' = "done"
       /\ ev' = Event("un_open", NoArticle, NoResponse, outcome)
  /\ UNCHANGED <<run, outputFiles, idiomaIndex, downloads, unFrame>>

\* the head of the loop over hrefs: the call of handleViewDocumentPage up to
\* its loop over idiomas, or browser.close() after the last href
UnDoc ==
  /\ pc = "un_doc"
  /\ \E ok \in BOOLEAN :
       IF viewDoc > NumViewDocs
         THEN /\ browser' = IF ok THEN "closed" ELSE browser
              /\ pc' = "done"
              /\ ev' = Event("un_close", NoArticle, NoResponse, "")
              /\ UNCHANGED <<dirs, viewDoc, idiomaIndex>>
         ELSE /\ dirs' = dirs \cup {UnPdfDir}
              /\ IF ok THEN /\ idiomaIndex' = 1
                            /\ pc' = "un_idioma"
                            /\ viewDoc' = viewDoc
                       ELSE /\ idiomaIndex' = 0
                            /\ pc' = "un_doc"
                            /\ viewDoc' = viewDoc + 1
              /\ ev' = Event("un_page", <<viewDoc, 0>>, NoResponse, "")
              /\ UNCHANGED browser
  /\ UNCHANGED <<run, outputFiles, downloads, unFrame>>

\* one pass of the loop over idiomas, up to the await of downloadFile, or
\* page.close() after the last language; an XPath query that throws ends
\* the page in the catch
UnIdioma ==
  /\ pc = "un_idioma"
  /\ \E ok \in BOOLEAN :
       LET s == LanguageStep(viewDoc, idiomaIndex, outputFiles) IN
       IF idiomaIndex > Len(UnIdiomas) \/ ~ok
         THEN /\ viewDoc' = viewDoc + 1
              /\ idiomaIndex' = 0
              /\ pc' = "un_doc"
              /\ ev' = Event("un_page_end", <<viewDoc, 0>>, NoResponse, "")
              /\ UNCHANGED <<outputFiles, downloads>>
       ELSE IF s.type = "download"
         THEN /\ outputFiles' = FileOnOpen(outputFiles, s.request.path)
              /\ downloads' = Append(downloads, s.request)
              /\ pc' = "un_fetching"
              /\ ev' = Event("un_fetch", <<viewDoc, idiomaIndex>>, NoResponse,
                             s.request.path)
              /\ UNCHANGED <<viewDoc, idiomaIndex>>
       ELSE /\ idiomaIndex' = idiomaIndex + 1
            /\ ev' = Event(IF s.type = "skip_exists" THEN "un_skip_exists"
                           ELSE "un_no_link",
                           <<viewDoc, idiomaIndex>>, NoResponse,
                           IF s.type = "skip_exists" THEN s.path ELSE "")
            /\ UNCHANGED <<pc, viewDoc, outputFiles, downloads>>
  /\ UNCHANGED <<run, browser, dirs, unFrame>>

\* the promise of downloadFile settles: the loop goes on to the next
\* language, or the rejection ends the page in the catch
UnSettle ==
  /\ pc = "un_fetching"
  /\ \E resp \in GetResponses :
       LET path == downloads[Len(downloads)].path IN
       /\ outputFiles' = FilesAfterDownload_un(outputFiles, path, resp)
       /\ IF downloadFile_un(resp) = "resolve"
            THEN /\ idiomaIndex' = idiomaIndex + 1
                 /\ pc' = "un_idioma"
                 /\ viewDoc' = viewDoc
            ELSE /\ idiomaIndex' = 0
                 /\ pc' = "un_doc"
                 /\ viewDoc' = viewDoc + 1
       /\ ev' = Event("un_settled", <<viewDoc, idiomaIndex>>, resp,
                      downloadFile_un(resp))
  /\ UNCHANGED <<run, browser, dirs, downloads, unFrame>>

\* the script is started again over the same output directory
UnRerun ==
  /\ pc = "done"
  /\ run < MaxRuns
  /\ run' = run + 1
  /\ pc' = "un_main"
  /\ browser' = "none"
  /\ viewDoc' = 0
  /\ idiomaIndex' = 0
  /\ downloads' = <<>>
  /\ ev' = NoEvent
  /\ UNCHANGED <<outputFiles, dirs, unFrame>>

NextUn ==
  \/ UnOpen
  \/ UnDoc
  \/ UnIdioma
  \/ UnSettle
  \/ UnRerun

SpecUn == InitUn /\ [][NextUn]_vars

(* ======================================================================= *)
(* Claims                                                                  *)
(* ======================================================================= *)

(* C1 (SpecRetry): retryWithDelay invokes fn at most `retries` times and   *)
(* its loop counter never passes `retries`; it has slept once, for the     *)
(* fixed `delay`, after every invocation that raised RateLimitError; it    *)
(* never settles with a RateLimitError, and when all `retries` invocations *)
(* raised RateLimitError it throws the ordinary 'Fallo despues de N        *)
(* reintentos' error.                                                      *)
C1_RetryBounded ==
  /\ calls <= retries
  /\ i <= retries
  /\ \A k \in 1..Len(sleeps) : sleeps[k] = delay
  /\ pc = "retry_loop" => Len(sleeps) = calls
  /\ pc = "fn_call" => Len(sleeps) = calls - 1
  /\ pc = "fn_returned" => Len(sleeps) = calls - 1
  /\ pc = "retry_returned" =>
       /\ rwResult # "RateLimitError"
       /\ IF rwResult = RetryExhausted
            THEN Len(sleeps) = calls /\ calls = retries
            ELSE Len(sleeps) = calls - 1 /\ rwResult = fnResult
       /\ Len(sleeps) = retries => rwResult = RetryExhausted

\* every one of at least two invocations raised RateLimitError
C1_Witness ==
  /\ pc = "retry_returned"
  /\ retries >= 2
  /\ calls = retries
  /\ Len(sleeps) = retries
  /\ rwResult = RetryExhausted

(* C2 (Spec): when retryWithDelay invokes processAndDownloadArticle again  *)
(* after a RateLimitError, the article's fetch is attempted again: after   *)
(* the n-th invocation for an article, n fetches of it have been started.  *)
C2_RetryFetchesAgain ==
  (pc = "fn_returned" /\ calls >= 2) => fetchTries = calls

(* C3 (Spec): a fetch whose response contains the rate-limit marker fails  *)
(* with RateLimitError whatever the HTTP status; a direct download without *)
(* the marker fails with an ordinary error for a non-200 status or a       *)
(* non-PDF content type, and resolves only for 200 application/pdf.        *)
C3_MarkerRaisesRateLimit ==
  ev.type \in {"fetch_ok", "fetch_failed"} =>
    LET direct == endsWith(Element(ev.art).link, ".pdf")
        pdf200 == ev.resp.status = HttpOk /\ ev.resp.ctype = "application/pdf"
    IN
    /\ ev.resp.marker => ev.outcome = "RateLimitError"
    /\ (direct /\ ~ev.resp.marker /\ ~pdf200) => ev.outcome = "Error"
    /\ (direct /\ ev.outcome = "resolve") => pdf200

C6_SuccessLedgerOnlyFetched ==
  \A art \in Articles :
    (Element(art).link # "" /\ hasOwnProperty(mappingFile, KeyOf(art)))
      => art \in okEver

(* C7 (Spec): an article whose fetch failed with an error other than       *)
(* RateLimitError has an entry in the failure ledger under the SHA-256 of  *)
(* its URL, holding its url, title and category; different failed articles *)
(* have different entries.                                                 *)
C7_FailureEntryPerArticle ==
  /\ \A art \in failedArts \cap fetchedRun :
       LET el == Element(art)
           key == getFileNameFromURL(el.link)
       IN /\ hasOwnProperty(failedCaseMapping, key)
          /\ failedCaseMapping[key].url = el.link
          /\ failedCaseMapping[key].title = el.title
          /\ failedCaseMapping[key].category = YearLabel(art[1])
  /\ Cardinality(DOMAIN failedCaseMapping) >= Cardinality(failedArts)

(* C8 (Spec): when a run in which every fetch and page load succeeded has  *)
(* finished, every listed article with a 'Texto completo' link has had its *)
(* file fetched successfully, in this run or an earlier one.               *)
C8_HealthyRunFetchesAll ==
  (pc = "done" /\ runHealthy) => LinkedArticles \subseteq okEver

(* C9 (Spec): an invocation of processAndDownloadArticle for an article    *)
(* whose key is in the success ledger, whose hash is in the failure ledger *)
(* or whose output file exists starts no fetch and leaves both in-memory   *)
(* ledgers, both ledger files and the output directory unchanged.          *)
C9_Skippable ==
  LET el == Element(CurrentArticle)
      fileName == getFileNameFromURL(el.link)
  IN /\ el.link # ""
     /\ \/ hasOwnProperty(caseMapping, fileName \o ".pdf")
        \/ hasOwnProperty(failedCaseMapping, fileName)
        \/ hasOwnProperty(outputFiles, OutputPath(yearLinks[y], fileName))

C9_SkipChangesNothing ==
  [][(pc = "fn_call" /\ C9_Skippable) =>
       /\ pc' = "fn_returned"
       /\ fnResult' = "return"
       /\ fetchTries' = fetchTries
       /\ fetchedRun' = fetchedRun
       /\ UNCHANGED ledgerVars]_vars

\* an article was skipped because its output file exists, its key being in
\* neither ledger
C9_Witness ==
  /\ ev.type = "skip_exists"
  /\ pc = "fn_returned"
  /\ ~hasOwnProperty(caseMapping, KeyOf(ev.art))
  /\ hasOwnProperty(outputFiles, PathOf(ev.art))

C11_FetchedDocNotFetchedAgain ==
  ev.type = "doc_fetch_start" => ev.art \notin docOk

(* C12 (SpecDocs): a direct GET answered with a status other than 200 is a *)
(* failure: the promise of downloadFile rejects, the item does not count   *)
(* as downloaded, and no file is left at outputPath.                       *)
C12_Non200IsFailure ==
  (/\ ev.type = "doc_settled"
   /\ ~includes(DocLink(ev.art[1], ev.art[2]), "htm")
   /\ ev.resp.status \notin {0, HttpOk}) =>
    /\ ev.outcome = "reject"
    /\ ev.art \notin docOk
    /\ ~hasOwnProperty(outputFiles, DocOutputPath(ev.art[1], ev.art[2]))

C14_DownloadIffNoFile ==
  [][(pc = "corte_item" /\ searchResult <= ResultsPerSite
        /\ CorteLink(site, searchResult, step) # "") =>
       LET link == CorteLink(site, searchResult, step)
           target == join(CorteDir(site, step), getFileNameFromURL_cidh(link))
       IN IF hasOwnProperty(outputFiles, target)
            THEN pc' # "corte_fetching" /\ outputFiles' = outputFiles
            ELSE /\ pc' = "corte_fetching"
                 /\ hasOwnProperty(outputFiles', target)
                 /\ CorteDir(site, "pdf") \in dirs
                 /\ CorteDir(site, "doc") \in dirs]_vars

\* a rerun skipped a file an earlier run had downloaded
C14_Witness ==
  /\ run >= 2
  /\ ev.type = "corte_skip_exists"
  /\ hasOwnProperty(outputFiles, CortePath(site, ev.art[2], ev.outcome))
  /\ pc = "corte_item"

(* C15 (SpecCorte): a search result whose link lookup or download fails    *)
(* does not stop the run: after the failure the scraper goes on with the   *)
(* remaining results.                                                      *)
C15_FailedResultDoesNotStopRun ==
  ev.type \in {"corte_throw", "corte_download_failed"} => pc # "crashed"

(* C16 (SpecExpress): a request to /search or /visit, GET or POST, that    *)
(* does not carry the Basic credentials admin:admin is answered 401 and    *)
(* reaches neither the route handlers nor queryGoogle / visitWebsiteUrl,   *)
(* while GET / is answered 200 whatever credentials it carries.            *)
C16_ProtectedRoutesRequireCredentials ==
  (pc = "listening" /\ res # <<>>) =>
    /\ (/\ req.path \in {"/search", "/visit"}
        /\ req.authorization # Header(<<"Basic", <<"admin", "admin">>>>)) =>
         res.status = 401 /\ reached = "none"
    /\ (req.method = "GET" /\ req.path = "/") =>
         res.status = 200 /\ reached = "landing"

(* C17 (SpecRetry): retryWithDelay invokes fn again only after a
   RateLimitError.  When an invocation has settled, a returned value is
   handed back at once and any other error is rethrown at once, with no sleep
   added; only a RateLimitError leads back to the loop, after one sleep of
   delay.  Every invocation after the first follows a RateLimitError, and
   once retryWithDelay has returned fn is not invoked and nothing sleeps. *)
C17_RetryOnlyAfterRateLimit ==
  [][/\ pc = "fn_returned" =>
          IF fnResult = "RateLimitError"
            THEN /\ pc' = "retry_loop"
                 /\ sleeps' = Append(sleeps, delay)
                 /\ calls' = calls
            ELSE /\ pc' = "retry_returned"
                 /\ rwResult' = fnResult
                 /\ sleeps' = sleeps
                 /\ calls' = calls
     /\ calls' # calls =>
          /\ calls' = calls + 1
          /\ calls = 0 \/ fnResult = "RateLimitError"
     /\ pc = "retry_returned" => calls' = calls /\ sleeps' = sleeps]_vars

\* a rate limit was slept on once and the error of the second invocation
\* was rethrown without a third invocation
C17_Witness ==
  /\ pc = "retry_returned"
  /\ rwResult = "Error"
  /\ calls = 2
  /\ Len(sleeps) = 1

(* C18 (SpecCrash): an article whose file was written when the process
   stopped before saveJSON persisted the success ledger is orphaned and
   stays orphaned.  Its file is on disk and its key is absent from the
   persisted success ledger from the stop on; in every later run the ledger
   loaded into memory never holds its key, the article is never fetched,
   and the only way processAndDownloadArticle ends for it is the skip of an
   existing file. *)
C18_OrphanStaysOrphaned ==
  \A art \in DOMAIN orphans :
    /\ hasOwnProperty(outputFiles, PathOf(art))
    /\ ~hasOwnProperty(mappingFile, KeyOf(art))
    /\ run > orphans[art] =>
         /\ ~hasOwnProperty(caseMapping, KeyOf(art))
         /\ art \notin fetchedRun
         /\ art \notin inFlight
         /\ (ev.art = art /\ ev.type \notin {"article", "article_end"}) =>
              ev.type = "skip_exists"

\* a later run has reached the orphaned article and skipped it
C18_Witness ==
  \E art \in DOMAIN orphans :
    /\ run > orphans[art]
    /\ ev = Event("skip_exists", art, NoResponse, "")
    /\ art \in invoked

(* C19 (Spec): article fetches of the Dialnet crawler are strictly
   sequential.  At most one downloadFile or generatePDF call is in progress,
   and only for the article the loop is at; at most one article is being
   processed; and no article is being processed when the loop moves to the
   next article, when the year ends or when the next year starts. *)
C19_FetchesSequential ==
  /\ Cardinality(inFlight) <= 1
  /\ Cardinality(openArticles) <= 1
  /\ inFlight \subseteq openArticles
  /\ inFlight # {} => pc = "fetching" /\ inFlight = {CurrentArticle}
  /\ openArticles # {} => openArticles = {CurrentArticle}
  /\ pc \in {"main_start", "year_loop", "year_call", "year_returned",
             "article_loop", "done"} => openArticles = {}

\* a fetch is in progress for an article after the fetch of an earlier
\* article of the same run has ended
C19_Witness ==
  /\ pc = "fetching"
  /\ inFlight = {CurrentArticle}
  /\ fetchedRun \ {CurrentArticle} # {}

(* C20 (SpecModule): initBrowser prevents simultaneous launches.  In every
   interleaving of concurrent queryGoogle, visitWebsiteUrl and closeBrowser
   calls at most one puppeteer.launch is in progress, and browserLaunching
   is true exactly while it is; a caller starts a launch only when none is
   in progress and starts to wait only when one is; and every caller that
   waits stops waiting, since browserLaunching is reset when the launch
   settles, whether it gave a browser or failed. *)
C20_SingleLaunch ==
  /\ [](/\ Cardinality({c \in Callers : cpc[c].at = "launching"}) <= 1
        /\ browserLaunching <=> \E c \in Callers : cpc[c].at = "launching")
  /\ [][\A c \in Callers :
          /\ (cpc[c].at # "launching" /\ cpc'[c].at = "launching") =>
               ~browserLaunching /\ browserLaunching'
          /\ (cpc[c].at # "waiting" /\ cpc'[c].at = "waiting") =>
               browserLaunching
          /\ (cpc[c].at = "launching" /\ cpc'[c].at # "launching") =>
               ~browserLaunching']_vars
  /\ \A c \in Callers : (cpc[c].at = "waiting") ~> (cpc[c].at # "waiting")

\* a caller waits while the launch of another caller is in progress
C20_Witness ==
  \E c, d \in Callers :
    /\ cpc[c].at = "waiting"
    /\ cpc[d].at = "launching"
    /\ browserLaunching

(* C21 (SpecModule): whenever initBrowser returns, browserInstance refers to
   a launched, connected browser, and the browserInstance.newPage() call
   that follows never runs on a null instance: also when the launch failed,
   when the caller waited for the launch of another caller, and after a
   disconnect. *)
C21_ReturnsConnectedBrowser ==
  [][\A c \in Callers :
       /\ (cpc[c].at # "use" /\ cpc'[c].at = "use") =>
            browserInstance' = "connected"
       /\ (cpc[c].at = "use" /\ cpc'[c].at # "use") =>
            browserInstance # "null"]_vars

(* C27 (SpecModule): no live browser is leaked.  At most one launched
   browser is alive (launched, not closed, not lost) at a time, and
   browserInstance is set to null only when the browser it refers to is the
   one that has just been closed or lost, never while that browser is still
   alive. *)
C27_NoLiveBrowserLeaked ==
  /\ [](Cardinality({b \in DOMAIN browsers : browsers[b] = "alive"}) <= 1)
  /\ [][(current # 0 /\ browserInstance' = "null") =>
          browsers'[current] # "alive"]_vars

(* C22 (SpecOhchr): the pagination loop of the OHCHR crawler visits the
   pages of the listing once each and in order, moves to the next page only
   after the last item of the page has been processed, and ends only because
   the listing container is absent or the 'next' link is missing or
   disabled; the browser is closed and documents.json and
   failed_documents.json are written, once each, only after the loop has
   ended, and they are once the run is over. *)
C22_PaginationEndsAndWritesOnce ==
  LET visits == SelectSeq(outputs, LAMBDA e : e[3] = "visit")
      ends == SelectSeq(outputs, LAMBDA e : e[3] \in
                {"end_absent", "end_missing", "end_disabled", "end_thrown"})
      writes(f) == SelectSeq(outputs, LAMBDA e : e[3] = "write " \o f)
      over == pc \in {"done", "crashed"} /\ currentPage >= 1
  IN
  /\ visits = [p \in 1..currentPage |-> Logged(p, 0, "visit")]
  /\ pc = "ohchr_next" => item = ItemsPerPage + 1
  /\ pc \in {"ohchr_page", "ohchr_items", "ohchr_next"} => ends = <<>>
  /\ (pc = "ohchr_close" \/ over) =>
       /\ Len(ends) = 1
       /\ ends[1][3] \in {"end_absent", "end_missing", "end_disabled"}
  /\ (browser = "closed" \/ outputFiles # EmptyObject) => pc = "done"
  /\ over =>
       /\ Len(writes("documents.json")) = 1
       /\ Len(writes("failed_documents.json")) = 1

(* C23 (SpecOhchr): every listed item that has been processed and has a
   card link has produced exactly one record, in documents or in
   failedDocuments and never in both, and an item without a card link has
   produced none. *)
C23_OneRecordPerLinkedItem ==
  \A p \in 1..NumPages, k \in 1..ItemsPerPage :
    (p < currentPage \/ (p = currentPage /\ k < item)) =>
      LET count(what) ==
            Cardinality({n \in DOMAIN outputs :
                           outputs[n] = Logged(p, k, what)})
      IN count("documents") + count("failed") =
           IF OhchrLink(p, k) = "" THEN 0 ELSE 1

(* C24 (SpecDocs), as stated: in the CIDH crawler the mapping file of a year
   is written only when every processAndDownloadFile call of the year's page
   has ended, and it holds one entry per item of that page, keyed by the
   item's file name or by '_ERROR_ ' + case name, and nothing else. *)
C24_OneEntryPerItem ==
  crawler = "cidh" =>
    \A n \in 1..DocPages :
      LET name == "case_mapping_year_" \o DocYearLabel(n) IN
      hasOwnProperty(mappingFile, name) =>
        /\ Cardinality(DOMAIN mappingFile[name]) = DocsPerPage
        /\ \A k \in 1..DocsPerPage :
             IF DocLink(n, k) = ""
               THEN hasOwnProperty(mappingFile[name],
                                   "_ERROR_ " \o DocTitle(n, k))
               ELSE hasOwnProperty(mappingFile[name], DocFileName(n, k))

(* C24 (SpecDocs), amended: the mapping file of a year is written only when
   every processAndDownloadFile call of the year's page has ended; its keys
   are exactly the keys of that page's items (file name, or '_ERROR_ ' +
   case name), one entry per distinct key, each holding the case name of an
   item with that key; it holds no entry of another year. *)
C24_OneEntryPerKey ==
  /\ [](crawler = "cidh" =>
         \A n \in 1..DocPages :
           LET name == "case_mapping_year_" \o DocYearLabel(n)
               key(k) == IF DocLink(n, k) = ""
                           THEN "_ERROR_ " \o DocTitle(n, k)
                           ELSE DocFileName(n, k)
           IN
           hasOwnProperty(mappingFile, name) =>
             /\ DOMAIN mappingFile[name] = {key(k) : k \in 1..DocsPerPage}
             /\ \A e \in DOMAIN mappingFile[name] :
                  \E k \in 1..DocsPerPage :
                    key(k) = e /\ mappingFile[name][e] = DocTitle(n, k))
  /\ [][(crawler = "cidh" /\ mappingFile' # mappingFile) =>
          /\ pc = "docs_tasks"
          /\ \A k \in 1..DocsPerPage : task[k] = "done"]_vars

\* the file of a later year has been written, for a page on which two
\* items link to the same file
C24_Witness ==
  /\ crawler = "cidh"
  /\ year > 2
  /\ hasOwnProperty(mappingFile, "case_mapping_year_" \o DocYearLabel(2))
  /\ \E j, k \in 1..DocsPerPage :
       j # k /\ DocLink(2, j) # "" /\ DocLink(2, j) = DocLink(2, k)

(* C26 (SpecDocs): in the CIDH crawler no two downloads that are in
   progress at the same time write the same output path: of two items of a
   page that link to the same file name, only one is downloading at any
   time. *)
C26_NoConcurrentWritesToOnePath ==
  (crawler = "cidh" /\ pc = "docs_tasks") =>
    \A j, k \in 1..DocsPerPage :
      (j # k /\ task[j] = "fetching" /\ task[k] = "fetching") =>
        WrittenPath(DocLink(year, j), DocOutputPath(year, j))
          # WrittenPath(DocLink(year, k), DocOutputPath(year, k))

(* C28 (SpecExpress): basicAuth is total.  For every request that reaches
   it, whatever the form of the Authorization header, it either calls
   next() or sends a 401 response, and it never throws: the request is
   answered 401 exactly when basicAuth refused it, and a handler behind it
   is reached only when it called next(). *)
C28_BasicAuthNeverThrows ==
  (/\ pc = "listening"
   /\ res # <<>>
   /\ ~(req.method = "GET" /\ req.path = "/")) =>
    /\ basicAuth(req.authorization) \in {"next", "401"}
    /\ res.status = 401 <=> basicAuth(req.authorization) = "401"
    /\ reached # "none" => basicAuth(req.authorization) = "next"

(* C25 (SpecUn): handleViewDocumentPage handles English and then Espanol and
   starts at most one download per language of a page: of the PDF link of
   the language's row when the row has one, saved under the hashed name of
   that link, else of the DOC link, saved under the hashed name of that link
   with the extension .doc; it never downloads the DOC of a row that has a
   PDF link, and it never starts a download to a path where a file exists. *)
C25_OneFilePerLanguage ==
  crawler = "un" =>
    /\ \A n \in DOMAIN downloads :
         LET dl == downloads[n]
             fila == UnFila(dl.doc, dl.idioma)
             idioma == UnIdiomas[dl.idioma]
             hashed == getFileNameFromURL_idioma(dl.href, idioma)
             stem == SubSeq(hashed, 1, Len(hashed) - 4)
         IN /\ ~dl.existed
            /\ fila \in {"pdf", "both", "doc"}
            /\ fila \in {"pdf", "both"} =>
                 /\ dl.kind = "pdf"
                 /\ dl.href = UnHref(dl.doc, dl.idioma, "pdf")
                 /\ dl.path = UnPdfDir \o "/" \o hashed
            /\ fila = "doc" =>
                 /\ dl.kind = "doc"
                 /\ dl.href = UnHref(dl.doc, dl.idioma, "doc")
                 /\ dl.path = UnPdfDir \o "/" \o stem \o ".doc"
            /\ endsWith(hashed, ".pdf")
    /\ \A m, n \in DOMAIN downloads :
         m < n => \/ downloads[m].doc < downloads[n].doc
                  \/ /\ downloads[m].doc = downloads[n].doc
                     /\ downloads[m].idioma < downloads[n].idioma
    /\ pc = "un_fetching" =>
         /\ downloads # <<>>
         /\ downloads[Len(downloads)].doc = viewDoc
         /\ downloads[Len(downloads)].idioma = idiomaIndex

\* a second run skips a file that exists after it has downloaded a DOC for a
\* row without a PDF link
C25_Witness ==
  /\ crawler = "un"
  /\ run = 2
  /\ ev.type = "un_skip_exists"
  /\ \E n \in DOMAIN downloads : downloads[n].kind = "doc"

(* C29 (SpecUn): every file that a run skips because it exists was written
   completely by a download that succeeded, and a download that has failed
   leaves no file at its outputPath. *)
C29_SkippedFilesAreComplete ==
  crawler = "un" =>
    /\ ev.type = "un_skip_exists" => outputFiles[ev.outcome] = "body"
    /\ (ev.type = "un_settled" /\ ev.outcome = "reject") =>
         ~hasOwnProperty(outputFiles, downloads[Len(downloads)].path)

====
